---- MODULE Spec2Model ----
(***************************************************************************)
(* GribReader (grib-reader.js): the GRIB2 message walker, the section      *)
(* parsers, the inventory and the getData query, modelled over the bytes   *)
(* of the input buffer.                                                    *)
(*                                                                         *)
(* Offsets are 0-based as in the source; buffer is a 1-based sequence, so  *)
(* view.getUint8(o) is buffer[o + 1].  A thrown exception is a record      *)
(* [thrown |-> TRUE, err |-> kind]; a DataView read outside the buffer     *)
(* throws "RangeError" as the JavaScript DataView does.                    *)
(***************************************************************************)
EXTENDS Integers, Sequences, FiniteSets, TLC

VARIABLES
    buffer,        \* this.buffer / this.view: the bytes handed to the constructor
    input,         \* how the buffer was assembled (message descriptors, trailing bytes)
    offset,        \* this.offset
    messages,      \* this.messages
    pc,            \* "idle" | "parse" (while loop of parse) | "message" (while loop of parseMessage) | "done"
    messageStart,  \* parseMessage: const messageStart
    message,       \* parseMessage: the message under construction
    error,         \* the error parse() caught, "none" if none
    steps,         \* loop iterations executed by the running parse()
    lastOp,        \* the last call since parse(): "none" | "getInventory" | "getData" |
                   \* "getGrid" |
                   \* "bilinearInterpolate" | "regridBilinear" (these two follow a getData) |
                   \* "readBits"
    queryError,    \* what that query threw, "none" if it returned
    inventory,     \* the value getInventory() returned
    options,       \* the options of the last getData() call
    result,        \* the value getData() returned
    derived,       \* the call made on that value and what it returned or threw
    first          \* what the first parse() that returned left: its messages, error and
                   \* cursor; << >> until then

vars == <<buffer, input, offset, messages, pc, messageStart, message, error,
          steps, lastOp, queryError, inventory, options, result, derived, first>>

(***************************************************************************)
(* Bounds of the model.                                                    *)
(***************************************************************************)
MaxMsgs == 2     \* items (messages, padding) concatenated in one input buffer
MaxSpin == 3     \* loop iterations followed beyond those a well-formed input needs

\* loop iterations followed in one parse(): at most 10 per message of the inputs
StepLimit == 10 * MaxMsgs + MaxSpin

(***************************************************************************)
(* Bytes and their assembly (used to build the inputs).                    *)
(***************************************************************************)
Zeros(n) == [i \in 1..n |-> 0]

\* s with the bytes b written at 0-based offset off
Put(s, off, b) ==
    [i \in 1..Len(s) |-> IF i > off /\ i <= off + Len(b) THEN b[i - off] ELSE s[i]]

RECURSIVE PutAll(_, _)
PutAll(s, items) ==
    IF items = <<>> THEN s
    ELSE PutAll(Put(s, Head(items)[1], Head(items)[2]), Tail(items))

U16B(v) == <<(v \div 256) % 256, v % 256>>
U32B(v) == <<(v \div 16777216) % 256, (v \div 65536) % 256, (v \div 256) % 256, v % 256>>
U64B(v) == <<0, 0, 0, 0>> \o U32B(v)

GRIB == <<71, 82, 73, 66>>     \* "GRIB"
END7777 == <<55, 55, 55, 55>>  \* "7777"

RECURSIVE Flatten(_)
Flatten(ss) == IF ss = <<>> THEN <<>> ELSE Head(ss) \o Flatten(Tail(ss))

RECURSIVE SumSeq(_)
SumSeq(s) == IF s = <<>> THEN 0 ELSE Head(s) + SumSeq(Tail(s))

(***************************************************************************)
(* The inputs: buffers assembled from a catalogue of messages, well-formed *)
(* ones and damaged ones, and of padding bytes.                            *)
(***************************************************************************)
Sec(num, body) == U32B(5 + Len(body)) \o <<num>> \o body

Sec1(hour) ==
    PutAll(Zeros(21), << <<0, U32B(21)>>, <<4, <<1>>>>, <<5, U16B(7)>>,
                         <<12, U16B(2025)>>, <<14, <<10, 13, hour, 0, 0>>>> >>)

Sec2 == Sec(2, <<9, 9, 9>>)

\* grid template 0: 2 x 2 points from (42.75, 351.75) by 0.25 degree
Sec3Grid(scanningMode, flags) ==
    PutAll(Zeros(72), << <<0, U32B(72)>>, <<4, <<3>>>>, <<6, U32B(4)>>, <<12, U16B(0)>>,
                         <<30, U32B(2)>>, <<34, U32B(2)>>,
                         <<46, U32B(42750000)>>, <<50, U32B(351750000)>>,
                         <<54, <<flags>>>>,
                         <<63, U32B(250000)>>, <<67, U32B(250000)>>,
                         <<71, <<scanningMode>>>> >>)

\* a grid template the reader does not decode (30, Lambert conformal)
Sec3Other == PutAll(Zeros(14), << <<0, U32B(14)>>, <<4, <<3>>>>, <<6, U32B(4)>>,
                                  <<12, U16B(30)>> >>)

\* product template 4.0: parameter, forecast hour, first fixed surface
Sec4(category, number, fcst, levelType, levelValue) ==
    PutAll(Zeros(28), << <<0, U32B(28)>>, <<4, <<4>>>>,
                         <<9, <<category, number>>>>,
                         <<17, <<1>>>>, <<18, U32B(fcst)>>,
                         <<22, <<levelType, 0>>>>, <<24, U32B(levelValue)>> >>)

\* simple packing of 4 points, R = 273.15
Sec5Simple(bits) ==
    PutAll(Zeros(21), << <<0, U32B(21)>>, <<4, <<5>>>>, <<5, U32B(4)>>, <<9, U16B(0)>>,
                         <<11, <<67, 136, 147, 51>>>>, <<19, <<bits>>>> >>)

\* a data template the reader does not decode (40, JPEG 2000)
Sec5Other == PutAll(Zeros(11), << <<0, U32B(11)>>, <<4, <<5>>>>, <<5, U32B(4)>>,
                                  <<9, U16B(40)>> >>)

\* complex packing with first-order spatial differencing: 4 points in 2 groups of 2,
\* 8-bit group references and lengths, group width 0, one extra descriptor octet
Sec5Complex ==
    PutAll(Zeros(49), << <<0, U32B(49)>>, <<4, <<5>>>>, <<5, U32B(4)>>, <<9, U16B(3)>>,
                         <<19, <<8>>>>, <<31, U32B(2)>>, <<35, <<0, 0>>>>,
                         <<37, U32B(0)>>, <<41, <<1>>>>, <<42, U32B(2)>>, <<46, <<8>>>>,
                         <<47, <<1, 1>>>> >>)

Sec6 == <<0, 0, 0, 6, 6, 255>>

Sec7(payload) == Sec(7, payload)

\* the bytes of a message: section 0, the sections, the terminator;
\* lengthError is added to the true length in the total-length field
Msg(signature, edition, lengthError, sections, terminator) ==
    LET rest == Flatten(sections) \o terminator
    IN  signature \o <<0, 0, 0, edition>> \o U64B(16 + Len(rest) + lengthError) \o rest

Wind == Sec4(2, 2, 33, 103, 10)

ValidIds == {"ugrd", "vgrd", "temp", "lambert", "jpeg", "complex", "ugrd850"}

DamagedIds == {"badSignature", "edition1", "noSection1", "repeated3", "backwards",
               "missing57", "unknown9", "tooLong", "tooShort", "noTerminator",
               "badTerminator", "zeroLength3", "truncated7", "pad8", "pad16"}

ItemBytes(id) ==
    CASE id = "ugrd" ->
           Msg(GRIB, 2, 0, <<Sec1(12), Sec3Grid(0, 48), Wind, Sec5Simple(8),
                              Sec7(<<1, 2, 3, 4>>)>>, END7777)
      [] id = "vgrd" ->
           Msg(GRIB, 2, 0, <<Sec1(12), Sec2, Sec3Grid(64, 48), Sec4(2, 3, 33, 103, 10),
                              Sec5Simple(8), Sec6, Sec7(<<5, 6, 7, 8>>)>>, END7777)
      [] id = "temp" ->
           Msg(GRIB, 2, 0, <<Sec1(12), Sec3Grid(0, 48), Sec4(0, 0, 24, 100, 50000),
                              Sec5Simple(0), Sec7(<< >>)>>, END7777)
      [] id = "lambert" ->
           Msg(GRIB, 2, 0, <<Sec1(12), Sec3Other, Sec4(3, 0, 0, 1, 0), Sec5Simple(8),
                              Sec7(<<9, 8, 7, 6>>)>>, END7777)
      [] id = "jpeg" ->
           Msg(GRIB, 2, 0, <<Sec1(12), Sec3Grid(0, 48), Sec4(1, 1, 33, 103, 2), Sec5Other,
                              Sec7(<<1, 2, 3, 4>>)>>, END7777)
      [] id = "complex" ->
           Msg(GRIB, 2, 0, <<Sec1(12), Sec3Grid(0, 48), Sec4(1, 0, 33, 103, 2), Sec5Complex,
                              Sec7(<<100, 130, 100, 100, 2, 0>>)>>, END7777)
      [] id = "ugrd850" ->
           Msg(GRIB, 2, 0, <<Sec1(12), Sec3Grid(128, 48), Sec4(2, 2, 33, 100, 85000),
                              Sec5Simple(8), Sec7(<<9, 8, 7, 6>>)>>, END7777)
      [] id = "badSignature" ->
           Msg(<<71, 82, 73, 88>>, 2, 0, <<Sec1(12), Sec3Grid(0, 48), Wind, Sec5Simple(8),
                              Sec7(<<1, 2, 3, 4>>)>>, END7777)
      [] id = "edition1" ->
           Msg(GRIB, 1, 0, <<Sec1(12), Sec3Grid(0, 48), Wind, Sec5Simple(8),
                              Sec7(<<1, 2, 3, 4>>)>>, END7777)
      [] id = "noSection1" ->
           Msg(GRIB, 2, 0, <<Sec3Grid(0, 48), Wind, Sec5Simple(8),
                              Sec7(<<1, 2, 3, 4>>)>>, END7777)
      [] id = "repeated3" ->
           Msg(GRIB, 2, 0, <<Sec1(12), Sec3Grid(0, 48), Sec3Other, Wind, Sec5Simple(8),
                              Sec7(<<1, 2, 3, 4>>)>>, END7777)
      [] id = "backwards" ->
           Msg(GRIB, 2, 0, <<Sec1(12), Sec3Grid(0, 48), Sec5Simple(8), Wind,
                              Sec7(<<1, 2, 3, 4>>)>>, END7777)
      [] id = "missing57" ->
           Msg(GRIB, 2, 0, <<Sec1(12), Sec3Grid(0, 48), Wind>>, END7777)
      [] id = "unknown9" ->
           Msg(GRIB, 2, 0, <<Sec1(12), Sec3Grid(0, 48), Wind, Sec(9, <<0>>), Sec5Simple(8),
                              Sec7(<<1, 2, 3, 4>>)>>, END7777)
      [] id = "tooLong" ->
           Msg(GRIB, 2, 8, <<Sec1(12), Sec3Grid(0, 48), Wind, Sec5Simple(8),
                              Sec7(<<1, 2, 3, 4>>)>>, END7777)
      [] id = "tooShort" ->
           Msg(GRIB, 2, -30, <<Sec1(12), Sec3Grid(0, 48), Wind, Sec5Simple(8),
                              Sec7(<<1, 2, 3, 4>>)>>, END7777)
      [] id = "noTerminator" ->
           Msg(GRIB, 2, 0, <<Sec1(12), Sec3Grid(0, 48), Wind, Sec5Simple(8),
                              Sec7(<<1, 2, 3, 4>>)>>, << >>)
      [] id = "badTerminator" ->
           Msg(GRIB, 2, 0, <<Sec1(12), Sec3Grid(0, 48), Wind, Sec5Simple(8),
                              Sec7(<<1, 2, 3, 4>>)>>, <<55, 55, 55, 56>>)
      [] id = "zeroLength3" ->
           Msg(GRIB, 2, 0, <<Sec1(12), Put(Sec3Grid(0, 48), 0, U32B(0)), Wind, Sec5Simple(8),
                              Sec7(<<1, 2, 3, 4>>)>>, END7777)
      [] id = "truncated7" ->
           Msg(GRIB, 2, 0, <<Sec1(12), Sec3Grid(0, 48), Wind, Sec5Simple(8)>>,
               <<0, 0, 0, 9, 7, 1, 2>>)
      [] id = "pad8" -> Zeros(8)
      [] id = "pad16" -> Zeros(16)

\* sequences over S of length at most n
RECURSIVE SeqsUpTo(_, _)
SeqsUpTo(S, n) ==
    IF n = 0 THEN {<< >>}
    ELSE LET shorter == SeqsUpTo(S, n - 1)
         IN  shorter \cup {Append(q, x) : q \in shorter, x \in S}

\* the inputs: up to MaxMsgs items, at most one of them damaged
Inputs ==
    {q \in SeqsUpTo(ValidIds \cup DamagedIds, MaxMsgs) :
        Cardinality({i \in DOMAIN q : q[i] \in DamagedIds}) <= 1}

Encode(q) == Flatten([i \in DOMAIN q |-> ItemBytes(q[i])])

\* a valid input: K concatenated well-formed GRIB2 messages and nothing else
ValidInput(q) == \A i \in DOMAIN q : q[i] \in ValidIds

(***************************************************************************)
(* Generated fields: one well-formed message per field, described by the   *)
(* record of what its sections 3, 4, 5 and 7 say.  Latitudes, longitudes   *)
(* and increments are in micro-degrees as in the file.                     *)
(***************************************************************************)
MaxNi == 2       \* points along a parallel of a generated grid
MaxNj == 2       \* points along a meridian of a generated grid

\* section 3, grid template 0, of the field f
Sec3LatLon(f) ==
    PutAll(Sec3Grid(f.scanningMode, f.flags),
           << <<6, U32B(f.points3)>>, <<30, U32B(f.ni)>>, <<34, U32B(f.nj)>>,
              <<46, U32B(f.latFirst)>>, <<50, U32B(f.lonFirst)>>,
              <<63, U32B(f.iInc)>>, <<67, U32B(f.jInc)>> >>)

\* the n binary digits of v, most significant first
bitsOf(v, n) == [k \in 1..n |-> (v \div (2 ^ (n - k))) % 2]

\* the digits of every value, n each, one after the other
RECURSIVE bitsOfAll(_, _)
bitsOfAll(values, n) ==
    IF values = << >> THEN << >> ELSE bitsOf(Head(values), n) \o bitsOfAll(Tail(values), n)

\* zero bits added up to the next octet boundary
padded(bits) == bits \o Zeros((8 - (Len(bits) % 8)) % 8)

\* the octets of a whole number of octets of bits
bytesOf(bits) ==
    [i \in 1..(Len(bits) \div 8) |->
        128 * bits[8 * i - 7] + 64 * bits[8 * i - 6] + 32 * bits[8 * i - 5]
            + 16 * bits[8 * i - 4] + 8 * bits[8 * i - 3] + 4 * bits[8 * i - 2]
            + 2 * bits[8 * i - 1] + bits[8 * i]]

\* v on n bits as a sign bit followed by the magnitude
signMagnitude(v, n) == IF v < 0 THEN <<1>> \o bitsOf(0 - v, n - 1) ELSE <<0>> \o bitsOf(v, n - 1)

\* A complex-packed field is described by what its encoder packed: the order of
\* spatial differencing and the octets per extra descriptor, the first values h1 and
\* h2 and the overall minimum gmin, the bits per group reference, width and length,
\* the references of widths and lengths and the length increment, and the groups,
\* each with its reference, its width and its packed values.
\* the extra descriptors of section 7: present for template 5.3 only
headerBits(f) ==
    IF f.template = 3 /\ f.packing.order > 0
    THEN bitsOf(f.packing.h1, 8 * f.packing.extraOctets)
             \o (IF f.packing.order = 2 THEN bitsOf(f.packing.h2, 8 * f.packing.extraOctets)
                 ELSE << >>)
             \o signMagnitude(f.packing.gmin, 8 * f.packing.extraOctets)
    ELSE << >>

\* the packed values of the groups g, one group after the other
RECURSIVE groupBits(_)
groupBits(g) ==
    IF g = << >> THEN << >>
    ELSE bitsOfAll(Head(g).values, Head(g).width) \o groupBits(Tail(g))

\* section 7 payload of a complex-packed field: the extra descriptors, then the group
\* references, the group widths, the scaled group lengths and the packed values, each
\* padded to a whole octet
complexPayload(f) ==
    bytesOf(headerBits(f)
            \o padded(bitsOfAll([g \in DOMAIN f.packing.groups |-> f.packing.groups[g].ref],
                                f.packing.bitsRef))
            \o padded(bitsOfAll([g \in DOMAIN f.packing.groups |->
                                    f.packing.groups[g].width - f.packing.refWidth],
                                f.packing.bitsWidth))
            \o padded(bitsOfAll([g \in DOMAIN f.packing.groups |->
                                    (Len(f.packing.groups[g].values) - f.packing.refLength)
                                        \div f.packing.lengthInc],
                                f.packing.bitsLength))
            \o padded(groupBits(f.packing.groups)))

\* section 5, simple packing (template 5.0) or complex packing (5.2: 47 octets,
\* 5.3: 49 octets), of the field f
Sec5Field(f) ==
    IF f.template = 0
    THEN PutAll(Sec5Simple(f.bits),
                << <<5, U32B(f.points5)>>, <<11, f.reference>>,
                   <<17, U16B(f.decimalScale)>> >>)
    ELSE PutAll(Zeros(IF f.template = 3 THEN 49 ELSE 47),
                << <<0, U32B(IF f.template = 3 THEN 49 ELSE 47)>>, <<4, <<5>>>>,
                   <<5, U32B(f.points5)>>, <<9, U16B(f.template)>>,
                   <<11, f.reference>>, <<17, U16B(f.decimalScale)>>,
                   <<19, <<f.packing.bitsRef>>>>,
                   <<31, U32B(f.packing.numberOfGroups)>>,
                   <<35, <<f.packing.refWidth, f.packing.bitsWidth>>>>,
                   <<37, U32B(f.packing.refLength)>>,
                   <<41, <<f.packing.lengthInc>>>>,
                   <<42, U32B(Len(f.packing.groups[Len(f.packing.groups)].values))>>,
                   <<46, <<f.packing.bitsLength>>>> >>
                   \o (IF f.template = 3
                       THEN << <<47, <<f.packing.order, f.packing.extraOctets>>>> >>
                       ELSE << >>))

FieldMsg(f) ==
    Msg(GRIB, 2, 0, <<Sec1(12), Sec3LatLon(f), Sec4(2, f.number, 33, 103, 10),
                       Sec5Field(f), Sec7(f.payload)>>, f.terminator)

\* the packed values 1, 2, ..., n
Ramp(n) == [p \in 1..n |-> p]

\* UGRD on the 2 x 2 grid of the catalogue, packed values 1..4 on 8 bits, R = 0, D = 0
BaseField ==
    [latFirst |-> 42750000, lonFirst |-> 351750000, iInc |-> 250000, jInc |-> 250000,
     ni |-> 2, nj |-> 2, scanningMode |-> 0, flags |-> 48, points3 |-> 4, points5 |-> 4,
     number |-> 2, bits |-> 8, decimalScale |-> 0, reference |-> <<0, 0, 0, 0>>,
     payload |-> Ramp(4), terminator |-> END7777, template |-> 0, packing |-> << >>]

\* first latitudes: a multiple of 1/64 degree (a float32) and one that is not
LatFirsts == {42750000, -10300000}

\* first longitudes: 0, just west of 0, next to 180, next to 360, and 351.75
LonFirsts == {0, -1, 179750000, 359750000, 351750000}

ScanningModes == {0, 64, 128, 192}

\* grids of up to MaxNi x MaxNj points by 0.25 degree
GridFields ==
    {[BaseField EXCEPT !.latFirst = la, !.lonFirst = lo, !.ni = ni, !.nj = nj,
                       !.scanningMode = sm, !.points3 = ni * nj, !.points5 = ni * nj,
                       !.payload = Ramp(ni * nj)] :
        la \in LatFirsts, lo \in LonFirsts, ni \in 1..MaxNi, nj \in 1..MaxNj,
        sm \in ScanningModes}

\* simple packing with and without packed values, each decimal scale factor,
\* R = 0 and R = 273.15
PackingFields ==
    {[BaseField EXCEPT !.bits = b[1], !.payload = b[2], !.decimalScale = d,
                       !.reference = r] :
        b \in {<<0, << >> >>, <<8, <<0, 0, 0, 0>> >>, <<8, Ramp(4)>>},
        d \in {0, 1, -2},
        r \in {<<0, 0, 0, 0>>, <<67, 136, 147, 51>>}}

\* sections 3 and 5 that disagree on the number of points, or with ni * nj
MismatchFields ==
    {[BaseField EXCEPT !.points5 = 2, !.payload = Ramp(2)],
     [BaseField EXCEPT !.points3 = 6]}

\* UGRD and VGRD on the same grid: calm at point 0, (3, 4), (1, 1) and (0, 5);
\* the second grid says its winds are relative to the grid
WindPairs ==
    {<<[BaseField EXCEPT !.payload = <<0, 3, 1, 0>>, !.flags = fl],
       [BaseField EXCEPT !.payload = <<0, 4, 1, 5>>, !.flags = fl, !.number = 3]>> :
        fl \in {48, 56}}

\* the number of values of the groups g
RECURSIVE valueCount(_)
valueCount(g) == IF g = << >> THEN 0 ELSE Len(Head(g).values) + valueCount(Tail(g))

\* how the groups of a complex-packed field are laid out: one group of five values of
\* width 0; two groups behind 5-bit references and 3-bit widths; three groups with a
\* reference width and 3-bit lengths; a single value
PackingShapes ==
    {[bitsRef |-> 8, bitsWidth |-> 0, refWidth |-> 0, bitsLength |-> 8, refLength |-> 0,
      lengthInc |-> 1,
      groups |-> <<[ref |-> 100, width |-> 0, values |-> <<0, 0, 0, 0, 0>>]>>],
     [bitsRef |-> 5, bitsWidth |-> 3, refWidth |-> 0, bitsLength |-> 4, refLength |-> 1,
      lengthInc |-> 1,
      groups |-> <<[ref |-> 10, width |-> 3, values |-> <<1, 5>>],
                   [ref |-> 20, width |-> 0, values |-> <<0, 0>>]>>],
     [bitsRef |-> 8, bitsWidth |-> 4, refWidth |-> 2, bitsLength |-> 3, refLength |-> 0,
      lengthInc |-> 1,
      groups |-> <<[ref |-> 0, width |-> 2, values |-> <<3>>],
                   [ref |-> 7, width |-> 5, values |-> <<17, 0>>],
                   [ref |-> 1, width |-> 2, values |-> <<2>>]>>],
     [bitsRef |-> 8, bitsWidth |-> 0, refWidth |-> 0, bitsLength |-> 0, refLength |-> 0,
      lengthInc |-> 1,
      groups |-> <<[ref |-> 9, width |-> 0, values |-> <<0>>]>>]}

\* the field of the given template, differencing order, octets per extra descriptor
\* and overall minimum, packed in the given shape, on a grid of as many points: 2 x 2
\* for four values, else one row
ComplexField(template, order, extraOctets, gmin, shape) ==
    LET n == valueCount(shape.groups)
        f == [BaseField EXCEPT
                 !.template = template,
                 !.packing = shape @@ [order |-> order, extraOctets |-> extraOctets,
                                       h1 |-> 200 * extraOctets - 100, h2 |-> 7,
                                       gmin |-> gmin,
                                       numberOfGroups |-> Len(shape.groups)],
                 !.ni = IF n = 4 THEN 2 ELSE n,
                 !.nj = IF n = 4 THEN 2 ELSE 1,
                 !.points3 = n,
                 !.points5 = n]
    IN  [f EXCEPT !.payload = complexPayload(f)]

\* template 5.2, and template 5.3 with order 1 and 2, one to three octets per extra
\* descriptor and a negative and a positive overall minimum
ComplexFields ==
    {ComplexField(2, 0, 0, 0, shape) : shape \in PackingShapes}
        \cup {ComplexField(3, order, extraOctets, gmin, shape) :
                  order \in {1, 2}, extraOctets \in {1, 2, 3}, gmin \in {-2, 3},
                  shape \in PackingShapes}

\* the field f without the last octet of its payload
cutShort(f) == [f EXCEPT !.payload = SubSeq(f.payload, 1, Len(f.payload) - 1)]

\* fields whose section 7 ends before all values: four 16-bit values in a payload of
\* four octets, at the end of the buffer or before the end section; complex-packed
\* fields that lack the last octet of their group values
TruncatedFields ==
    {[BaseField EXCEPT !.bits = 16, !.terminator = t] : t \in {END7777, << >>}}
        \cup {cutShort(ComplexField(2, 0, 0, 0, shape)) :
                  shape \in {s \in PackingShapes : s.bitsWidth > 0}}
        \cup {cutShort(ComplexField(3, 1, 1, 3, shape)) :
                  shape \in {s \in PackingShapes : s.bitsWidth > 0}}

\* complex-packed fields that declare 200 groups where section 7 holds the arrays of
\* two or three: the array of 32-bit group references, widths or lengths runs past
\* the end of the buffer, the other two arrays take no bits
OverrunFields ==
    {LET f == ComplexField(template, template - 2, template - 2, 3, shape)
     IN  [f EXCEPT !.packing.numberOfGroups = 200,
                   !.packing.bitsRef = wide[1],
                   !.packing.bitsWidth = wide[2],
                   !.packing.bitsLength = wide[3]] :
        template \in {2, 3},
        shape \in {s \in PackingShapes : s.bitsWidth > 0},
        wide \in {<<32, 0, 0>>, <<0, 32, 0>>, <<0, 0, 32>>}}

\* the generated inputs: one field, with or without its end section, UGRD followed
\* by VGRD, or an overrunning field followed by UGRD
FieldInputs ==
    {<<f>> : f \in GridFields \cup PackingFields \cup MismatchFields \cup ComplexFields
                  \cup TruncatedFields \cup {[BaseField EXCEPT !.terminator = << >>]}}
        \cup WindPairs
        \cup {<<f, BaseField>> : f \in OverrunFields}

EncodeFields(q) == Flatten([i \in DOMAIN q |-> FieldMsg(q[i])])

(***************************************************************************)
(* DataView reads.  InRange is the DataView bounds check; the readers are  *)
(* used only after it.                                                     *)
(***************************************************************************)
byteLength == Len(buffer)

InRange(o, n) == o >= 0 /\ o + n <= byteLength

getUint8(o) == buffer[o + 1]

getUint16(o) == getUint8(o) * 256 + getUint8(o + 1)

getUint32(o) ==
    getUint8(o) * 16777216 + getUint8(o + 1) * 65536 + getUint8(o + 2) * 256 + getUint8(o + 3)

getInt16(o) ==
    (IF getUint8(o) >= 128 THEN getUint8(o) - 256 ELSE getUint8(o)) * 256 + getUint8(o + 1)

getInt32(o) ==
    (IF getUint8(o) >= 128 THEN getUint8(o) - 256 ELSE getUint8(o)) * 16777216
        + getUint8(o + 1) * 65536 + getUint8(o + 2) * 256 + getUint8(o + 3)

\* An IEEE-754 single read big-endian: its sign, biased exponent and fraction.
getFloat32(o) ==
    [sign     |-> getUint8(o) \div 128,
     exponent |-> (getUint8(o) % 128) * 2 + getUint8(o + 1) \div 128,
     fraction |-> (getUint8(o + 1) % 128) * 65536 + getUint8(o + 2) * 256 + getUint8(o + 3)]

readUint64(o) ==
    IF getUint32(o) = 0 THEN getUint32(o + 4)
    ELSE getUint32(o) * 65536 * 65536 + getUint32(o + 4)

\* String.fromCharCode of the four bytes at o
fourBytes(o) == <<getUint8(o), getUint8(o + 1), getUint8(o + 2), getUint8(o + 3)>>

\* new Uint8Array(this.buffer, byteOffset, length) throws RangeError unless this holds
TypedArrayOK(byteOffset, length) ==
    length >= 0 /\ byteOffset <= byteLength /\ byteOffset + length <= byteLength

Uint8ArrayAt(byteOffset, length) == [i \in 1..length |-> buffer[byteOffset + i]]

Thrown(e) == [thrown |-> TRUE, err |-> e]

Parsed(sec, len) == [thrown |-> FALSE, err |-> "none", section |-> sec, length |-> len]

(***************************************************************************)
(* readBits: n bits at a bit offset, most significant first.  value is a   *)
(* JavaScript int32: << and | work on 32-bit two's complement.             *)
(***************************************************************************)
Pow2(k) == 2 ^ k

Min(a, b) == IF a < b THEN a ELSE b

\* (v << k) for an int32 v and 1 <= k <= 8
Shl32(v, k) ==
    LET m == Pow2(31 - k)
        r == v % m
        b == (v \div m) % 2
    IN  IF b = 1 THEN (r - m) * Pow2(k) ELSE r * Pow2(k)

RECURSIVE readBitsLoop(_, _, _, _, _)
readBitsLoop(byteOffset, bitShift, numberOfBits, bitsRead, value) ==
    IF bitsRead >= numberOfBits THEN value
    ELSE LET currentByteOffset == byteOffset + ((bitShift + bitsRead) \div 8)
             currentBitShift   == (bitShift + bitsRead) % 8
             byte              == getUint8(currentByteOffset)
             bitsAvailable     == 8 - currentBitShift
             bitsToRead        == Min(numberOfBits - bitsRead, bitsAvailable)
             mask              == Pow2(bitsToRead) - 1
             shift             == bitsAvailable - bitsToRead
             chunk             == (byte \div Pow2(shift)) % (mask + 1)
         IN  readBitsLoop(byteOffset, bitShift, numberOfBits, bitsRead + bitsToRead,
                          Shl32(value, bitsToRead) + chunk)

readBits(bitOffset, numberOfBits) ==
    LET byteOffset     == bitOffset \div 8
        bitShift       == bitOffset % 8
        lastByteNeeded == (bitOffset + numberOfBits - 1) \div 8
    IN  IF lastByteNeeded >= byteLength
        THEN [thrown |-> TRUE, err |-> "OutOfBounds", value |-> 0]
        ELSE [thrown |-> FALSE, err |-> "none",
              value |-> readBitsLoop(byteOffset, bitShift, numberOfBits, 0, 0)]

(***************************************************************************)
(* Decoded values.  A value (R + X * 2^E) * 10^(-D) is kept as the record   *)
(* of its terms: R the float32 reference, X the integer, E and D the scale *)
(* factors.                                                                *)
(***************************************************************************)
Scaled(R, X, E, D) == [R |-> R, X |-> X, E |-> E, D |-> D]

Fill(n, v) == [i \in 1..n |-> v]

RECURSIVE simplePackingLoop(_, _, _, _, _)
simplePackingLoop(bitOffset, template, numberOfPoints, i, data) ==
    IF i >= numberOfPoints THEN [thrown |-> FALSE, err |-> "none", data |-> data]
    ELSE LET packed == readBits(bitOffset, template.numberOfBits)
         IN  IF packed.thrown THEN [thrown |-> TRUE, err |-> packed.err, data |-> <<>>]
             ELSE simplePackingLoop(
                      bitOffset + template.numberOfBits, template, numberOfPoints, i + 1,
                      Append(data, Scaled(template.referenceValue, packed.value,
                                          template.binaryScaleFactor,
                                          template.decimalScaleFactor)))

decodeSimplePacking(off, dataLength, template, numberOfPoints) ==
    IF template.numberOfBits = 0
    THEN [thrown |-> FALSE, err |-> "none",
          data |-> Fill(numberOfPoints, Scaled(template.referenceValue, 0, 0, 0))]
    ELSE simplePackingLoop(off * 8, template, numberOfPoints, 0, <<>>)

(***************************************************************************)
(* decodeComplexPacking (templates 5.2 and 5.3).                           *)
(***************************************************************************)
ZeroFloat == [sign |-> 0, exponent |-> 0, fraction |-> 0]

\* a[idx] = v on a typed array: a write past the end is ignored
SetAt(a, idx, v) == IF idx >= 0 /\ idx < Len(a) THEN [a EXCEPT ![idx + 1] = v] ELSE a

\* template.orderOfSpatialDifferencing || 0, template.numberOfOctetsExtraDescriptors || 0
FieldOr0(template, name) == IF name \in DOMAIN template THEN template[name] ELSE 0

\* Step 1: h1, h2 and the sign-magnitude overall minimum
spatialDiffHeader(off, template) ==
    LET orderOfSpatialDiff == FieldOr0(template, "orderOfSpatialDifferencing")
        numExtraOctets     == FieldOr0(template, "numberOfOctetsExtraDescriptors")
        nbitsd             == numExtraOctets * 8
        bitPos0            == off * 8
        none               == [thrown |-> FALSE, h1 |-> 0, h2 |-> 0, overallMin |-> 0,
                               bitOffset |-> bitPos0]
        failed             == [thrown |-> TRUE, h1 |-> 0, h2 |-> 0, overallMin |-> 0,
                               bitOffset |-> bitPos0]
    IN  IF ~(orderOfSpatialDiff > 0 /\ numExtraOctets > 0) THEN none
        ELSE IF ~(numExtraOctets = 2 \/ numExtraOctets = 1) THEN none
        ELSE LET r1      == readBits(bitPos0, nbitsd)
                 bitPos1 == bitPos0 + nbitsd
                 r2      == IF orderOfSpatialDiff = 2 THEN readBits(bitPos1, nbitsd)
                            ELSE [thrown |-> FALSE, err |-> "none", value |-> 0]
                 bitPos2 == IF orderOfSpatialDiff = 2 THEN bitPos1 + nbitsd ELSE bitPos1
                 isign   == readBits(bitPos2, 1)
                 mag     == readBits(bitPos2 + 1, nbitsd - 1)
             IN  IF r1.thrown \/ r2.thrown \/ isign.thrown \/ mag.thrown THEN failed
                 ELSE [thrown |-> FALSE, h1 |-> r1.value, h2 |-> r2.value,
                       overallMin |-> IF isign.value = 1 THEN 0 - mag.value ELSE mag.value,
                       bitOffset |-> bitPos2 + 1 + (nbitsd - 1)]

RECURSIVE readArrayLoop(_, _, _, _, _)
readArrayLoop(bitOffset, count, width, i, values) ==
    IF i >= count THEN [thrown |-> FALSE, values |-> values, bitOffset |-> bitOffset]
    ELSE LET r == readBits(bitOffset, width)
         IN  IF r.thrown THEN [thrown |-> TRUE, values |-> <<>>, bitOffset |-> bitOffset]
             ELSE readArrayLoop(bitOffset + width, count, width, i + 1,
                                Append(values, r.value))

\* no alignment after a metadata array: the cursor stays where the array ended
byteAlignSkipped(bitOffset, bitsUsed) == bitOffset

\* the byte alignment after a metadata array of bitsUsed bits
byteAlign(bitOffset, bitsUsed) ==
    IF bitsUsed % 8 # 0 THEN bitOffset + 8 - (bitsUsed % 8) ELSE bitOffset

\* the array r read by readArrayLoop, the bit position moved to the next byte boundary
alignedArray(r, bitsUsed) ==
    IF r.thrown THEN r
    ELSE [thrown |-> FALSE, values |-> r.values,
          bitOffset |-> byteAlign(r.bitOffset, bitsUsed)]

\* Steps 2-4: one metadata array of numberOfGroups values of nbits bits each
readGroupArray(bitOffset, numberOfGroups, nbits) ==
    IF nbits > 0
    THEN alignedArray(readArrayLoop(bitOffset, numberOfGroups, nbits, 0, <<>>),
                      numberOfGroups * nbits)
    ELSE [thrown |-> FALSE, values |-> Fill(numberOfGroups, 0), bitOffset |-> bitOffset]

\* Step 5: the loops over the groups j and the values k of a group
RECURSIVE unpackLoop(_, _, _, _, _, _, _, _, _, _)
unpackLoop(j, k, n, bitOffset, ifld, gref, gwidth, glen, numberOfPoints, maxBitOffset) ==
    IF j >= Len(gref) THEN [thrown |-> FALSE, ifld |-> ifld]
    ELSE IF gwidth[j + 1] # 0
    THEN IF k < glen[j + 1] /\ n < numberOfPoints
         THEN IF bitOffset + gwidth[j + 1] > maxBitOffset
              THEN [thrown |-> FALSE,
                    ifld |-> [i \in 1..Len(ifld) |-> IF i > n THEN 0 ELSE ifld[i]]]
              ELSE LET packed == readBits(bitOffset, gwidth[j + 1])
                   IN  IF packed.thrown THEN [thrown |-> TRUE, ifld |-> ifld]
                       ELSE unpackLoop(j, k + 1, n + 1, bitOffset + gwidth[j + 1],
                                       SetAt(ifld, n, gref[j + 1] + packed.value),
                                       gref, gwidth, glen, numberOfPoints, maxBitOffset)
         ELSE IF n >= numberOfPoints THEN [thrown |-> FALSE, ifld |-> ifld]
              ELSE unpackLoop(j + 1, 0, n, bitOffset, ifld, gref, gwidth, glen,
                              numberOfPoints, maxBitOffset)
    ELSE IF k < glen[j + 1] /\ n < numberOfPoints
         THEN unpackLoop(j, k + 1, n + 1, bitOffset, SetAt(ifld, n, gref[j + 1]),
                         gref, gwidth, glen, numberOfPoints, maxBitOffset)
         ELSE unpackLoop(j + 1, 0, n, bitOffset, ifld, gref, gwidth, glen,
                         numberOfPoints, maxBitOffset)

\* Step 6: the reversal loops, from index n on
RECURSIVE spatialDiff1(_, _, _)
spatialDiff1(ifld, n, overallMin) ==
    IF n >= Len(ifld) THEN ifld
    ELSE spatialDiff1(SetAt(ifld, n, (ifld[n + 1] + overallMin) + ifld[n]), n + 1, overallMin)

RECURSIVE spatialDiff2(_, _, _)
spatialDiff2(ifld, n, overallMin) ==
    IF n >= Len(ifld) THEN ifld
    ELSE spatialDiff2(
             SetAt(ifld, n, (ifld[n + 1] + overallMin) + (2 * ifld[n]) - ifld[n - 1]),
             n + 1, overallMin)

\* the reversal with the overall minimum left out
reverseSpatialDiffNoMinimum(ifld, orderOfSpatialDiff, h1, h2, overallMin) ==
    IF orderOfSpatialDiff = 1 THEN spatialDiff1(SetAt(ifld, 0, h1), 1, 0)
    ELSE IF orderOfSpatialDiff = 2
    THEN spatialDiff2(SetAt(SetAt(ifld, 0, h1), 1, h2), 2, 0)
    ELSE ifld

reverseSpatialDiff(ifld, orderOfSpatialDiff, h1, h2, overallMin) ==
    IF orderOfSpatialDiff = 1 THEN spatialDiff1(SetAt(ifld, 0, h1), 1, overallMin)
    ELSE IF orderOfSpatialDiff = 2
    THEN spatialDiff2(SetAt(SetAt(ifld, 0, h1), 1, h2), 2, overallMin)
    ELSE ifld

\* gwidth[j] = (widths[j] & 0xFF) + referenceForGroupWidths in a Uint8Array
groupWidths(widths, template) ==
    [i \in 1..template.numberOfGroups |->
        ((widths.values[i] % 256) + template.referenceForGroupWidths) % 256]

\* glen[j] = lens[j] * lengthIncrement + referenceForGroupLengths, the last one given
groupLengths(lens, template) ==
    [i \in 1..template.numberOfGroups |->
        IF i = template.numberOfGroups THEN template.trueLengthOfLastGroup
        ELSE (lens.values[i] * template.lengthIncrementForGroupLengths)
                 + template.referenceForGroupLengths]

\* Step 7: Y = (R + X * 2^E) / 10^D for every point
scaleValues(ifld, template, numberOfPoints) ==
    [i \in 1..numberOfPoints |->
        Scaled(template.referenceValue, ifld[i], template.binaryScaleFactor,
               template.decimalScaleFactor)]

\* Steps 6 and 7 on the unpacked integer field
complexAfterUnpack(hdr, unpacked, template, numberOfPoints) ==
    IF unpacked.thrown THEN [thrown |-> TRUE, data |-> <<>>]
    ELSE [thrown |-> FALSE,
          data |-> scaleValues(
                       reverseSpatialDiff(unpacked.ifld,
                                          FieldOr0(template, "orderOfSpatialDifferencing"),
                                          hdr.h1, hdr.h2, hdr.overallMin),
                       template, numberOfPoints)]

\* Step 5 once the group lengths are read
complexAfterLengths(hdr, grefs, widths, lens, off, dataLength, template, numberOfPoints) ==
    IF lens.thrown THEN [thrown |-> TRUE, data |-> <<>>]
    ELSE complexAfterUnpack(
             hdr,
             unpackLoop(0, 0, 0, lens.bitOffset, Fill(numberOfPoints, 0), grefs.values,
                        groupWidths(widths, template), groupLengths(lens, template),
                        numberOfPoints, (off + dataLength) * 8),
             template, numberOfPoints)

\* Step 4 once the group widths are read
complexAfterWidths(hdr, grefs, widths, off, dataLength, template, numberOfPoints) ==
    IF widths.thrown THEN [thrown |-> TRUE, data |-> <<>>]
    ELSE complexAfterLengths(
             hdr, grefs, widths,
             readGroupArray(widths.bitOffset, template.numberOfGroups,
                            template.numberOfBitsForScaledGroupLengths),
             off, dataLength, template, numberOfPoints)

\* Step 3 once the group references are read
complexAfterRefs(hdr, grefs, off, dataLength, template, numberOfPoints) ==
    IF grefs.thrown THEN [thrown |-> TRUE, data |-> <<>>]
    ELSE complexAfterWidths(
             hdr, grefs,
             readGroupArray(grefs.bitOffset, template.numberOfGroups,
                            template.numberOfBitsForGroupWidths),
             off, dataLength, template, numberOfPoints)

\* Step 2 once the spatial differencing header is read; no group: all points are R
complexAfterHeader(hdr, off, dataLength, template, numberOfPoints) ==
    IF hdr.thrown THEN [thrown |-> TRUE, data |-> <<>>]
    ELSE IF template.numberOfGroups = 0
    THEN [thrown |-> FALSE,
          data |-> Fill(numberOfPoints,
                        Scaled(template.referenceValue, 0, 0,
                               template.decimalScaleFactor))]
    ELSE complexAfterRefs(
             hdr,
             readGroupArray(hdr.bitOffset, template.numberOfGroups, template.numberOfBits),
             off, dataLength, template, numberOfPoints)

\* the body of the try block: thrown when a readBits inside it throws
complexPackingTry(off, dataLength, template, numberOfPoints) ==
    complexAfterHeader(spatialDiffHeader(off, template), off, dataLength, template,
                       numberOfPoints)

\* a catch that returns an empty Float32Array
dataOrNothing(r, numberOfPoints) == IF r.thrown THEN << >> ELSE r.data

\* the catch: a zero-filled Float32Array
dataOrZeros(r, numberOfPoints) ==
    IF r.thrown THEN Fill(numberOfPoints, Scaled(ZeroFloat, 0, 0, 0)) ELSE r.data

\* try { ... } catch { return new Float32Array(numberOfPoints) }: it never throws
decodeComplexPacking(off, dataLength, template, numberOfPoints) ==
    dataOrZeros(complexPackingTry(off, dataLength, template, numberOfPoints),
                numberOfPoints)

(***************************************************************************)
(* The section parsers, at byte offset o = this.offset.  Each gives        *)
(* Thrown(kind) or Parsed(section, length); the caller adds length to      *)
(* this.offset.                                                            *)
(***************************************************************************)
parseSection0(o) ==
    IF o + 16 > byteLength THEN [isNull |-> TRUE, thrown |-> FALSE, err |-> "none"]
    ELSE IF fourBytes(o) # GRIB
    THEN [isNull |-> FALSE, thrown |-> TRUE, err |-> "InvalidSignature"]
    ELSE [isNull |-> FALSE, thrown |-> FALSE, err |-> "none",
          discipline |-> getUint8(o + 6),
          edition |-> getUint8(o + 7),
          totalLength |-> readUint64(o + 8)]

parseSection1(o) ==
    IF ~InRange(o, 5) THEN Thrown("RangeError")
    ELSE IF getUint8(o + 4) # 1 THEN Thrown("ExpectedSection1")
    ELSE IF ~InRange(o, 21) THEN Thrown("RangeError")
    ELSE Parsed([length |-> getUint32(o),
                 centreId |-> getUint16(o + 5),
                 subCentreId |-> getUint16(o + 7),
                 masterTableVersion |-> getUint8(o + 9),
                 localTableVersion |-> getUint8(o + 10),
                 significanceOfReferenceTime |-> getUint8(o + 11),
                 year |-> getUint16(o + 12),
                 month |-> getUint8(o + 14),
                 day |-> getUint8(o + 15),
                 hour |-> getUint8(o + 16),
                 minute |-> getUint8(o + 17),
                 second |-> getUint8(o + 18),
                 productionStatus |-> getUint8(o + 19),
                 typeOfData |-> getUint8(o + 20)],
                getUint32(o))

parseSection2(o) ==
    IF ~InRange(o, 5) THEN Thrown("RangeError")
    ELSE IF ~TypedArrayOK(o + 5, getUint32(o) - 5) THEN Thrown("RangeError")
    ELSE Parsed([length |-> getUint32(o),
                 localData |-> Uint8ArrayAt(o + 5, getUint32(o) - 5)],
                getUint32(o))

\* Grid Definition Template 3.0; latitudes, longitudes and increments in 1e-6 degree
parseGridTemplate0(t) ==
    LET ni            == getUint32(t + 16)
        nj            == getUint32(t + 20)
        latFirst      == getInt32(t + 32)
        lonFirst      == getInt32(t + 36)
        iIncrement    == getUint32(t + 49)
        jIncrement    == getUint32(t + 53)
        scanningMode  == getUint8(t + 57)
        iScansPositively == (scanningMode \div 128) % 2 = 0
        jScansPositively == (scanningMode \div 64) % 2 # 0
    IN  [shapeOfEarth |-> getUint8(t),
         scaleFactorOfRadiusOfSphericalEarth |-> getUint8(t + 1),
         scaledValueOfRadiusOfSphericalEarth |-> getUint32(t + 2),
         scaleFactorOfEarthMajorAxis |-> getUint8(t + 6),
         scaledValueOfEarthMajorAxis |-> getUint32(t + 7),
         scaleFactorOfEarthMinorAxis |-> getUint8(t + 11),
         scaledValueOfEarthMinorAxis |-> getUint32(t + 12),
         ni |-> ni,
         nj |-> nj,
         basicAngleOfInitialProductionDomain |-> getUint32(t + 24),
         subdivisionsOfBasicAngle |-> getUint32(t + 28),
         latitudeOfFirstGridPoint |-> latFirst,
         longitudeOfFirstGridPoint |-> lonFirst,
         resolutionAndComponentFlags |-> getUint8(t + 40),
         latitudeOfLastGridPoint |->
             latFirst + (nj - 1) * jIncrement * (IF jScansPositively THEN 1 ELSE -1),
         longitudeOfLastGridPoint |->
             lonFirst + (ni - 1) * iIncrement * (IF iScansPositively THEN 1 ELSE -1),
         latitudeOfLastGridPointFromFile |-> getInt32(t + 41),
         longitudeOfLastGridPointFromFile |-> getInt32(t + 45),
         iDirectionIncrement |-> iIncrement,
         jDirectionIncrement |-> jIncrement,
         scanningMode |-> scanningMode]

parseSection3(o) ==
    IF ~InRange(o, 14) THEN Thrown("RangeError")
    ELSE LET section3 == [length |-> getUint32(o),
                          source |-> getUint8(o + 5),
                          numberOfDataPoints |-> getUint32(o + 6),
                          numberOfOctetsForOptional |-> getUint8(o + 10),
                          interpretationOfOptional |-> getUint8(o + 11),
                          gridDefinitionTemplateNumber |-> getUint16(o + 12)]
         IN  IF section3.gridDefinitionTemplateNumber = 0
             THEN IF ~InRange(o + 14, 58) THEN Thrown("RangeError")
                  ELSE Parsed(section3 @@ ("gridTemplate" :> parseGridTemplate0(o + 14)),
                              getUint32(o))
             ELSE Parsed(section3, getUint32(o))

parseSection4(o) ==
    IF ~InRange(o, 9) THEN Thrown("RangeError")
    ELSE IF ~TypedArrayOK(o + 9, getUint32(o) - 9) THEN Thrown("RangeError")
    ELSE Parsed([length |-> getUint32(o),
                 numberOfCoordinateValues |-> getUint16(o + 5),
                 productDefinitionTemplateNumber |-> getUint16(o + 7),
                 templateData |-> Uint8ArrayAt(o + 9, getUint32(o) - 9)],
                getUint32(o))

\* the fields templates 5.0, 5.2 and 5.3 share
template50(o) ==
    [referenceValue |-> getFloat32(o + 11),
     binaryScaleFactor |-> getInt16(o + 15),
     decimalScaleFactor |-> getInt16(o + 17),
     numberOfBits |-> getUint8(o + 19),
     typeOfOriginalFieldValues |-> getUint8(o + 20)]

template52(o) ==
    template50(o) @@
    [groupSplittingMethod |-> getUint8(o + 21),
     missingValueManagement |-> getUint8(o + 22),
     primaryMissingValue |-> getFloat32(o + 23),
     secondaryMissingValue |-> getFloat32(o + 27),
     numberOfGroups |-> getUint32(o + 31),
     referenceForGroupWidths |-> getUint8(o + 35),
     numberOfBitsForGroupWidths |-> getUint8(o + 36),
     referenceForGroupLengths |-> getUint32(o + 37),
     lengthIncrementForGroupLengths |-> getUint8(o + 41),
     trueLengthOfLastGroup |-> getUint32(o + 42),
     numberOfBitsForScaledGroupLengths |-> getUint8(o + 46)]

parseSection5(o) ==
    IF ~InRange(o, 11) THEN Thrown("RangeError")
    ELSE LET section5 == [length |-> getUint32(o),
                          numberOfDataPoints |-> getUint32(o + 5),
                          dataRepresentationTemplateNumber |-> getUint16(o + 9)]
             number   == section5.dataRepresentationTemplateNumber
         IN  IF number = 0
             THEN IF ~InRange(o, 21) THEN Thrown("RangeError")
                  ELSE Parsed(section5 @@ ("template" :> template50(o)), getUint32(o))
             ELSE IF number = 2
             THEN IF ~InRange(o, 47) THEN Thrown("RangeError")
                  ELSE Parsed(section5 @@ ("template" :>
                                  (template52(o) @@ [orderOfSpatialDifferencing |-> 0])),
                              getUint32(o))
             ELSE IF number = 3
             THEN IF ~InRange(o, 49) THEN Thrown("RangeError")
                  ELSE Parsed(section5 @@ ("template" :>
                                  (template52(o) @@
                                   [orderOfSpatialDifferencing |-> getUint8(o + 47),
                                    numberOfOctetsExtraDescriptors |-> getUint8(o + 48)])),
                              getUint32(o))
             ELSE Parsed(section5, getUint32(o))

parseSection6(o) ==
    IF ~InRange(o, 6) THEN Thrown("RangeError")
    ELSE IF getUint8(o + 5) = 0
    THEN IF ~TypedArrayOK(o + 6, getUint32(o) - 6) THEN Thrown("RangeError")
         ELSE Parsed([length |-> getUint32(o), bitMapIndicator |-> getUint8(o + 5),
                      bitmap |-> Uint8ArrayAt(o + 6, getUint32(o) - 6)],
                     getUint32(o))
    ELSE Parsed([length |-> getUint32(o), bitMapIndicator |-> getUint8(o + 5)],
                getUint32(o))

\* reached only after parseMessage has seen "7777" at o
parseSection8(o) ==
    IF fourBytes(o) # END7777 THEN Thrown("InvalidEndSection") ELSE Parsed(<< >>, 4)

\* sections is message.sections: section5 is undefined until a section 5 was parsed.
\* section7.data = null is the absence of the field "data".
\* section 7 as parseSection7 leaves it for a template it does not decode:
\* data stays null (no data field), rawData is a view of the payload bytes
rawSection7AsData(o, length) ==
    Parsed([length |-> length,
            rawData |-> Uint8ArrayAt(o + 5, length - 5),
            data |-> Uint8ArrayAt(o + 5, length - 5)],
           length)

rawSection7(o, length) ==
    Parsed([length |-> length, rawData |-> Uint8ArrayAt(o + 5, length - 5)], length)

\* section 7 with the field decodeSimplePacking gave, or the error it threw
decodedSection7(d, length) ==
    IF d.thrown THEN Thrown(d.err) ELSE Parsed([length |-> length, data |-> d.data], length)

parseSection7(o, sections) ==
    IF ~InRange(o, 5) THEN Thrown("RangeError")
    ELSE IF "section5" \in DOMAIN sections /\ "template" \in DOMAIN sections.section5
                /\ sections.section5.dataRepresentationTemplateNumber = 0
    THEN decodedSection7(
             decodeSimplePacking(o + 5, getUint32(o) - 5, sections.section5.template,
                                 sections.section5.numberOfDataPoints),
             getUint32(o))
    ELSE IF "section5" \in DOMAIN sections /\ "template" \in DOMAIN sections.section5
                /\ sections.section5.dataRepresentationTemplateNumber \in {2, 3}
    THEN Parsed([length |-> getUint32(o),
                 data |-> decodeComplexPacking(o + 5, getUint32(o) - 5,
                                               sections.section5.template,
                                               sections.section5.numberOfDataPoints)],
                getUint32(o))
    ELSE IF ~TypedArrayOK(o + 5, getUint32(o) - 5) THEN Thrown("RangeError")
    ELSE rawSection7(o, getUint32(o))

(***************************************************************************)
(* parse() and parseMessage().                                             *)
(***************************************************************************)
\* the switch of parseMessage on the section number read at this.offset + 4
dispatchSection(o, sectionNumber, sections) ==
    CASE sectionNumber = 2 -> parseSection2(o)
      [] sectionNumber = 3 -> parseSection3(o)
      [] sectionNumber = 4 -> parseSection4(o)
      [] sectionNumber = 5 -> parseSection5(o)
      [] sectionNumber = 6 -> parseSection6(o)
      [] sectionNumber = 7 -> parseSection7(o, sections)
      [] OTHER -> Thrown("UnknownSection")

sectionName(sectionNumber) ==
    CASE sectionNumber = 2 -> "section2"
      [] sectionNumber = 3 -> "section3"
      [] sectionNumber = 4 -> "section4"
      [] sectionNumber = 5 -> "section5"
      [] sectionNumber = 6 -> "section6"
      [] sectionNumber = 7 -> "section7"

\* message.sections.sectionN = ...: a later section of the same number replaces the earlier
setSection(sections, name, sec) ==
    [k \in DOMAIN sections \cup {name} |-> IF k = name THEN sec ELSE sections[k]]

\* a push at the front of the list instead of the back
pushMessageFront(msgs, m) == <<m>> \o msgs

\* this.messages.push(message)
pushMessage(msgs, m) == Append(msgs, m)

\* an error handler that keeps what parseMessage had built so far
messagesWithPartial(msgs, partial) == Append(msgs, partial)

\* catch (error) { break; }: what this.messages is when parseMessage threw on `partial`
messagesAfterError(msgs, partial) == msgs

\* what the first parse() that returned left, were this one to leave msgs, err and off
firstOr(msgs, err, off) ==
    IF first = << >> THEN [messages |-> msgs, error |-> err, offset |-> off] ELSE first

\* parse() that rewinds the cursor and keeps the messages of the call before
ParseBeginKeepingMessages ==
    /\ pc \in {"idle", "done"}
    /\ offset' = 0
    /\ messages' = messages
    /\ pc' = "parse"
    /\ error' = "none"
    /\ steps' = 0
    /\ message' = <<>>
    /\ messageStart' = 0
    /\ lastOp' = "none"
    /\ queryError' = "none"
    /\ inventory' = <<>>
    /\ options' = <<>>
    /\ result' = <<>>
    /\ derived' = <<>>
    /\ UNCHANGED <<buffer, input, first>>

\* parse(): this.offset = 0; this.messages = []
ParseBegin ==
    /\ pc \in {"idle", "done"}
    /\ offset' = 0
    /\ messages' = <<>>
    /\ pc' = "parse"
    /\ error' = "none"
    /\ steps' = 0
    /\ message' = <<>>
    /\ messageStart' = 0
    /\ lastOp' = "none"
    /\ queryError' = "none"
    /\ inventory' = <<>>
    /\ options' = <<>>
    /\ result' = <<>>
    /\ derived' = <<>>
    /\ UNCHANGED <<buffer, input, first>>

\* while (this.offset < this.buffer.byteLength) is false: return this.messages
ParseReturn ==
    /\ pc = "parse"
    /\ ~(offset < byteLength)
    /\ pc' = "done"
    /\ first' = firstOr(messages, error, offset)
    /\ UNCHANGED <<buffer, input, offset, messages, messageStart, message, error, steps,
                   lastOp, queryError, inventory, options, result, derived>>

\* one iteration of parse()'s loop, up to the section loop of parseMessage:
\* parseSection0, then parseSection1
ParseMessageBegin ==
    /\ pc = "parse"
    /\ offset < byteLength
    /\ steps < StepLimit
    /\ steps' = steps + 1
    /\ LET section0 == parseSection0(offset)
           section1 == parseSection1(offset + 16)
       IN  IF section0.isNull
           THEN UNCHANGED <<offset, messages, pc, messageStart, message, error, first>>
           ELSE IF section0.thrown
           THEN /\ error' = section0.err
                /\ messages' = messagesAfterError(messages, <<>>)
                /\ pc' = "done"
                /\ UNCHANGED <<offset, messageStart, message>>
                /\ first' = firstOr(messages', error', offset')
           ELSE IF section1.thrown
           THEN /\ error' = section1.err
                /\ offset' = offset + 16
                /\ messages' = messagesAfterError(
                                   messages,
                                   [discipline |-> section0.discipline,
                                    edition |-> section0.edition,
                                    totalLength |-> section0.totalLength,
                                    sections |-> << >>])
                /\ pc' = "done"
                /\ UNCHANGED <<messageStart, message>>
                /\ first' = firstOr(messages', error', offset')
           ELSE /\ messageStart' = offset
                /\ message' = [discipline |-> section0.discipline,
                               edition |-> section0.edition,
                               totalLength |-> section0.totalLength,
                               sections |-> ("section1" :> section1.section)]
                /\ offset' = offset + 16 + section1.length
                /\ pc' = "message"
                /\ UNCHANGED <<messages, error, first>>
    /\ UNCHANGED <<buffer, input, lastOp, queryError, inventory, options, result, derived>>

\* while (this.offset < messageStart + section0.totalLength) is false: return message
MessageReturn ==
    /\ pc = "message"
    /\ ~(offset < messageStart + message.totalLength)
    /\ messages' = pushMessage(messages, message)
    /\ pc' = "parse"
    /\ message' = <<>>
    /\ UNCHANGED <<buffer, input, first, offset, messageStart, error, steps,
                   lastOp, queryError, inventory, options, result, derived>>

\* an exception inside parseMessage's loop reaches the catch of parse()
sectionThrew(err) ==
    /\ error' = err
    /\ messages' = messagesAfterError(messages, message)
    /\ pc' = "done"
    /\ UNCHANGED <<offset, message>>
    /\ first' = firstOr(messages', error', offset')

\* "7777": parseSection8, break, return message; parse() pushes it
endMessage(r) ==
    IF r.thrown THEN sectionThrew(r.err)
    ELSE /\ offset' = offset + r.length
         /\ messages' = pushMessage(messages, message)
         /\ pc' = "parse"
         /\ message' = <<>>
         /\ UNCHANGED <<error, first>>

\* message.sections.sectionN = the section parsed, this.offset moved past it
storeSection(r, sectionNumber) ==
    IF r.thrown THEN sectionThrew(r.err)
    ELSE /\ message' = [message EXCEPT !.sections =
                            setSection(@, sectionName(sectionNumber), r.section)]
         /\ offset' = offset + r.length
         /\ UNCHANGED <<messages, pc, error, first>>

\* one iteration of parseMessage()'s loop: "7777" ends the message, else a section
SectionStep ==
    /\ pc = "message"
    /\ offset < messageStart + message.totalLength
    /\ steps < StepLimit
    /\ steps' = steps + 1
    /\ IF ~InRange(offset, 4)
       THEN sectionThrew("RangeError")
       ELSE IF fourBytes(offset) = END7777
       THEN endMessage(parseSection8(offset))
       ELSE IF ~InRange(offset + 4, 1)
       THEN sectionThrew("RangeError")
       ELSE storeSection(dispatchSection(offset, getUint8(offset + 4), message.sections),
                         getUint8(offset + 4))
    /\ UNCHANGED <<buffer, input, messageStart, lastOp, queryError, inventory, options,
                   result, derived>>

(***************************************************************************)
(* getInventory() and the strings it formats.                              *)
(***************************************************************************)
\* String(n).padStart(2, '0')
padStart2(n) == IF n < 10 THEN "0" \o ToString(n) ELSE ToString(n)

Pow10(k) == 10 ^ k

\* the digits of f, k of them, without trailing zeros
RECURSIVE fractionDigits(_, _)
fractionDigits(f, k) ==
    IF f = 0 \/ k = 0 THEN ""
    ELSE ToString(f \div Pow10(k - 1)) \o fractionDigits(f % Pow10(k - 1), k - 1)

\* formatValue(n / 10^k): Number.toString of the value, which has no trailing zeros
formatValue(n, k) ==
    LET a    == IF n < 0 THEN 0 - n ELSE n
        whole == ToString(a \div Pow10(k))
        frac == fractionDigits(a % Pow10(k), k)
    IN  (IF n < 0 THEN "-" ELSE "") \o whole \o (IF frac = "" THEN "" ELSE "." \o frac)

\* Math.round(n / 10^k / 100): halves round up
roundHundredth(n, k) == (2 * n + 100 * Pow10(k)) \div (200 * Pow10(k))

\* levelValue is scaledValue / 10^scaleFactor
getLevelDescription(levelType, scaledValue, scaleFactor) ==
    CASE levelType = 1 -> "surface"
      [] levelType = 2 -> "cloud base"
      [] levelType = 3 -> "cloud top"
      [] levelType = 4 -> "0 deg isotherm"
      [] levelType = 6 -> "max wind"
      [] levelType = 7 -> "tropopause"
      [] levelType = 8 -> "top of atmosphere"
      [] levelType = 100 -> formatValue(scaledValue, scaleFactor + 2) \o " mb"
      [] levelType = 101 -> "mean sea level"
      [] levelType = 102 -> formatValue(scaledValue, scaleFactor) \o " m above mean sea level"
      [] levelType = 103 -> formatValue(scaledValue, scaleFactor) \o " m above ground"
      [] levelType = 104 -> formatValue(scaledValue, scaleFactor) \o " sigma level"
      [] levelType = 105 -> formatValue(scaledValue, scaleFactor) \o " hybrid level"
      [] levelType = 106 -> formatValue(scaledValue, scaleFactor) \o " m below land surface"
      [] levelType = 107 -> formatValue(scaledValue, scaleFactor) \o " K isentropic"
      [] levelType = 108 ->
           ToString(roundHundredth(scaledValue, scaleFactor)) \o "-0 mb above ground"
      [] levelType = 109 -> "PV=" \o formatValue(scaledValue, scaleFactor) \o " PVU"
      [] levelType = 200 -> "entire atmosphere"
      [] levelType = 201 -> "entire ocean"
      [] levelType = 220 -> "planetary boundary layer"
      [] levelType = 221 -> "layer between two isobaric surfaces"
      [] levelType = 222 -> "layer between two levels at specified height above MSL"
      [] OTHER -> "level " \o ToString(levelType) \o " = "
                      \o formatValue(scaledValue, scaleFactor)

getTimeUnitDescription(timeUnit) ==
    CASE timeUnit = 0 -> "minute"
      [] timeUnit = 1 -> "hour"
      [] timeUnit = 2 -> "day"
      [] timeUnit = 3 -> "month"
      [] timeUnit = 4 -> "year"
      [] timeUnit = 5 -> "decade"
      [] timeUnit = 6 -> "normal (30 years)"
      [] timeUnit = 7 -> "century"
      [] timeUnit = 10 -> "3 hour"
      [] timeUnit = 11 -> "6 hour"
      [] timeUnit = 12 -> "12 hour"
      [] timeUnit = 13 -> "second"
      [] OTHER -> "unit " \o ToString(timeUnit)

\* templateData[i] in a template string: "undefined" past the end
elementText(templateData, i) ==
    IF i < Len(templateData) THEN ToString(templateData[i + 1]) ELSE "undefined"

getParameterName(templateData) ==
    LET known == Len(templateData) >= 2
        category == templateData[1]
        number   == templateData[2]
    IN  CASE known /\ category = 2 /\ number = 2 -> "ugrd"
          [] known /\ category = 2 /\ number = 3 -> "vgrd"
          [] known /\ category = 2 /\ number = 1 -> "vwnd"
          [] known /\ category = 2 /\ number = 0 -> "uwnd"
          [] known /\ category = 0 /\ number = 0 -> "temp"
          [] known /\ category = 1 /\ number = 0 -> "spfh"
          [] known /\ category = 1 /\ number = 1 -> "rh"
          [] known /\ category = 3 /\ number = 0 -> "pres"
          [] known /\ category = 3 /\ number = 1 -> "pmsl"
          [] OTHER -> "param_" \o elementText(templateData, 0) \o "_"
                          \o elementText(templateData, 1)

\* String.toUpperCase on the names getParameterName gives
toUpperCase(name) ==
    CASE name = "ugrd" -> "UGRD"
      [] name = "vgrd" -> "VGRD"
      [] name = "vwnd" -> "VWND"
      [] name = "uwnd" -> "UWND"
      [] name = "temp" -> "TEMP"
      [] name = "spfh" -> "SPFH"
      [] name = "rh" -> "RH"
      [] name = "pres" -> "PRES"
      [] name = "pmsl" -> "PMSL"
      [] OTHER -> "PARAM" \o SubSeq(name, 6, Len(name))

\* (t[i] << 24) | (t[i+1] << 16) | (t[i+2] << 8) | t[i+3], an int32; i is 0-based
int32At(t, i) ==
    (IF t[i + 1] >= 128 THEN t[i + 1] - 256 ELSE t[i + 1]) * 16777216
        + t[i + 2] * 65536 + t[i + 3] * 256 + t[i + 4]

hasTemplateData(m) ==
    "section4" \in DOMAIN m.sections /\ "templateData" \in DOMAIN m.sections.section4

\* an offset that is never advanced
nextOffsetStuck(currentOffset, m) == currentOffset

\* currentOffset += message.totalLength
nextOffset(currentOffset, m) == currentOffset + m.totalLength

\* the entry of message m, the index-th (0-based) message, at currentOffset
inventoryEntry(m, index, currentOffset) ==
    LET s1 == m.sections.section1
        t  == IF hasTemplateData(m) THEN m.sections.section4.templateData ELSE << >>
        dateStr == ToString(s1.year) \o padStart2(s1.month) \o padStart2(s1.day)
                       \o padStart2(s1.hour)
        parameter == IF hasTemplateData(m) THEN toUpperCase(getParameterName(t))
                     ELSE "unknown"
        forecastTime == IF hasTemplateData(m) /\ Len(t) >= 13
                        THEN ToString(int32At(t, 9)) \o " "
                                 \o getTimeUnitDescription(t[9]) \o " fcst"
                        ELSE "unknown"
        level == IF hasTemplateData(m) /\ Len(t) >= 19
                 THEN getLevelDescription(t[14], int32At(t, 15), t[15])
                 ELSE "unknown"
    IN  [messageNumber |-> index + 1,
         offset |-> currentOffset,
         date |-> dateStr,
         parameter |-> parameter,
         level |-> level,
         forecastTime |-> forecastTime,
         inventoryLine |-> ToString(index + 1) \o ":" \o ToString(currentOffset) \o ":d="
                               \o dateStr \o ":" \o parameter \o ":" \o level \o ":"
                               \o forecastTime \o ":"]

RECURSIVE inventoryLoop(_, _, _, _)
inventoryLoop(msgs, index, currentOffset, inv) ==
    IF index >= Len(msgs) THEN inv
    ELSE inventoryLoop(msgs, index + 1, nextOffset(currentOffset, msgs[index + 1]),
                       Append(inv, inventoryEntry(msgs[index + 1], index, currentOffset)))

getInventory(msgs) ==
    IF Len(msgs) = 0 THEN [thrown |-> TRUE, err |-> "NoMessagesParsed", value |-> << >>]
    ELSE [thrown |-> FALSE, err |-> "none", value |-> inventoryLoop(msgs, 0, 0, << >>)]

\* what the caller of getInventory() sees: the error thrown or the list returned
getInventoryOutcome(r) ==
    /\ queryError' = r.err
    /\ inventory' = r.value

\* A query leaves the reader as it found it, so one query is followed after each
\* parse(): a second one would start from the same reader.
GetInventory ==
    /\ pc \in {"idle", "done"}
    /\ lastOp = "none"
    /\ lastOp' = "getInventory"
    /\ getInventoryOutcome(getInventory(messages))
    /\ options' = << >>
    /\ result' = << >>
    /\ UNCHANGED <<buffer, input, first, offset, messages, pc, messageStart, message, error,
                   steps, derived>>

\* getGrid(messageIndex): the description of the grid of messages[messageIndex]
getGrid(msgs, messageIndex) ==
    IF Len(msgs) = 0 THEN [thrown |-> TRUE, err |-> "NoMessagesParsed", value |-> << >>]
    ELSE IF messageIndex >= Len(msgs)
    THEN [thrown |-> TRUE, err |-> "IndexOutOfRange", value |-> << >>]
    ELSE IF "section3" \notin DOMAIN msgs[messageIndex + 1].sections
    THEN [thrown |-> TRUE, err |-> "NoGridSection", value |-> << >>]
    ELSE IF "gridTemplate" \notin DOMAIN msgs[messageIndex + 1].sections.section3
    THEN [thrown |-> TRUE, err |-> "NoGridTemplate", value |-> << >>]
    ELSE LET section3         == msgs[messageIndex + 1].sections.section3
             gridTemplate     == section3.gridTemplate
             resolutionFlags  == gridTemplate.resolutionAndComponentFlags
             scanningMode     == gridTemplate.scanningMode
             isGridRelative   == (resolutionFlags \div 8) % 2 # 0
             iScansPositively == (scanningMode \div 128) % 2 = 0
             jScansPositively == (scanningMode \div 64) % 2 # 0
             scanOrder        == (IF iScansPositively THEN "WE" ELSE "EW") \o ":"
                                     \o (IF jScansPositively THEN "SN" ELSE "NS")
         IN  [thrown |-> FALSE, err |-> "none",
              value |->
                [gridTemplate |-> section3.gridDefinitionTemplateNumber,
                 gridType |-> IF section3.gridDefinitionTemplateNumber = 0
                              THEN "lat-lon grid"
                              ELSE IF section3.gridDefinitionTemplateNumber = 30
                              THEN "Lambert Conformal"
                              ELSE IF section3.gridDefinitionTemplateNumber = 20
                              THEN "Polar Stereographic"
                              ELSE "unknown",
                 winds |-> IF isGridRelative THEN "grid relative" ELSE "earth relative",
                 dimensions |-> [ni |-> gridTemplate.ni, nj |-> gridTemplate.nj],
                 totalPoints |-> section3.numberOfDataPoints,
                 latitude |-> [first |-> gridTemplate.latitudeOfFirstGridPoint,
                               last |-> gridTemplate.latitudeOfLastGridPoint,
                               increment |-> gridTemplate.jDirectionIncrement],
                 longitude |-> [first |-> gridTemplate.longitudeOfFirstGridPoint,
                                last |-> gridTemplate.longitudeOfLastGridPoint,
                                increment |-> gridTemplate.iDirectionIncrement],
                 scanning |-> [mode |-> scanningMode, inputOrder |-> scanOrder,
                               outputOrder |-> scanOrder],
                 resolution |-> resolutionFlags,
                 units |-> "1e-06"]]

\* getGrid(messageIndex) for the first two indices; the value returned is kept in
\* result, the index in options
GetGrid ==
    /\ pc \in {"idle", "done"}
    /\ lastOp = "none"
    /\ \E messageIndex \in {0, 1} :
          /\ options' = [messageIndex |-> messageIndex]
          /\ queryError' = getGrid(messages, messageIndex).err
          /\ result' = getGrid(messages, messageIndex).value
    /\ lastOp' = "getGrid"
    /\ inventory' = << >>
    /\ UNCHANGED <<buffer, input, first, offset, messages, pc, messageStart, message, error,
                   steps, derived>>

(***************************************************************************)
(* new RegExp(pattern) and regex.test(line), for the patterns the model    *)
(* calls getData with: literal characters, `|`, and one level of (...).    *)
(***************************************************************************)
charAt(str, i) == SubSeq(str, i, i)

\* the nesting depth after the first i characters, -1 once a `)` had no `(`
RECURSIVE groupDepth(_, _)
groupDepth(pattern, i) ==
    IF i = 0 THEN 0
    ELSE LET before == groupDepth(pattern, i - 1)
         IN  IF before < 0 THEN before
             ELSE IF charAt(pattern, i) = "(" THEN before + 1
             ELSE IF charAt(pattern, i) = ")" THEN before - 1
             ELSE before

\* new RegExp(pattern) does not throw a SyntaxError
regexCompiles(pattern) == groupDepth(pattern, Len(pattern)) = 0

\* the first position >= from of character c in str, 0 if none
RECURSIVE indexOf(_, _, _)
indexOf(str, c, from) ==
    IF from > Len(str) THEN 0
    ELSE IF charAt(str, from) = c THEN from
    ELSE indexOf(str, c, from + 1)

\* the alternatives of a | b | c
RECURSIVE splitBar(_)
splitBar(str) ==
    LET bar == indexOf(str, "|", 1)
    IN  IF bar = 0 THEN {str}
        ELSE {SubSeq(str, 1, bar - 1)} \cup splitBar(SubSeq(str, bar + 1, Len(str)))

\* the literal strings a compiled pattern matches
RECURSIVE alternatives(_)
alternatives(pattern) ==
    LET open == indexOf(pattern, "(", 1)
        close == indexOf(pattern, ")", open + 1)
    IN  IF open = 0 THEN splitBar(pattern)
        ELSE {SubSeq(pattern, 1, open - 1) \o a \o rest :
                 a \in splitBar(SubSeq(pattern, open + 1, close - 1)),
                 rest \in alternatives(SubSeq(pattern, close + 1, Len(pattern)))}

includesText(line, text) ==
    \E i \in 1..(Len(line) - Len(text) + 1) : SubSeq(line, i, i + Len(text) - 1) = text

\* regex.test(line): the pattern matches somewhere in the line
regexTest(pattern, line) == \E text \in alternatives(pattern) : includesText(line, text)

(***************************************************************************)
(* getData(options).  options is a record holding the keys the caller      *)
(* passed; an absent key is undefined.                                     *)
(***************************************************************************)
optionOr(opts, name, default) == IF name \in DOMAIN opts THEN opts[name] ELSE default

Range(seq) == {seq[i] : i \in DOMAIN seq}

\* a catch that wraps every error, the no-match one included
rethrowAllWrapped(err) == "InvalidPattern"

\* the catch of the match block: what getData throws for an error caught there
rethrowMatchError(err) == IF err = "NoMatch" THEN "NoMatch" ELSE "InvalidPattern"

\* lines 1156-1179: the 0-based indices of the messages whose inventory line matches
matchFilter(msgs, opts) ==
    LET matchPattern == optionOr(opts, "match", "")
        inv == getInventory(msgs)
        matchedIndices == {i \in 0..(Len(msgs) - 1) :
                              regexTest(matchPattern, inv.value[i + 1].inventoryLine)}
        caught == IF ~regexCompiles(matchPattern) THEN "SyntaxError"
                  ELSE IF inv.thrown THEN inv.err
                  ELSE IF matchedIndices = {} THEN "NoMatch"
                  ELSE "none"
    IN  IF matchPattern = ""
        THEN [thrown |-> FALSE, err |-> "none", filtered |-> FALSE, indices |-> {}]
        ELSE IF caught # "none"
        THEN [thrown |-> TRUE, err |-> rethrowMatchError(caught), filtered |-> FALSE,
              indices |-> {}]
        ELSE [thrown |-> FALSE, err |-> "none", filtered |-> TRUE,
              indices |-> matchedIndices]

(***************************************************************************)
(* Float32Array elements.  The grid template holds latitudes, longitudes   *)
(* and increments as whole micro-degrees (the doubles n / 1e6); lat and    *)
(* lng are Float32Arrays, whose elements are kept here in ticks of 2^-22   *)
(* degree.  A float32 of magnitude 2 or more (and below 512) is a whole    *)
(* number of ticks; a smaller one is kept to the nearest tick.             *)
(***************************************************************************)
TicksPerDegree == 4194304

\* a / b rounded to the nearest integer, a tie to the even one (a >= 0, b > 0)
roundHalfEven(a, b) ==
    IF 2 * (a % b) > b \/ (2 * (a % b) = b /\ (a \div b) % 2 = 1)
    THEN (a \div b) + 1
    ELSE a \div b

\* the spacing, in ticks, of the float32 numbers around a magnitude of n ticks
RECURSIVE ulpOf(_)
ulpOf(n) == IF n < 16777216 THEN 1 ELSE 2 * ulpOf(n \div 2)

\* storing into a Float32Array the double that is v micro-degrees:
\* v / 1e6 degree = (v \div 15625) * 65536 + (v % 15625) * 65536 / 15625 ticks
float32OfMicro(v) ==
    LET a == IF v < 0 THEN -v ELSE v
        u == ulpOf((a \div 15625) * 65536)
        m == (a \div 15625) * (65536 \div u)
                 + roundHalfEven((a % 15625) * (65536 \div u), 15625)
    IN  IF v < 0 THEN -(m * u) ELSE m * u

\* storing into a Float32Array the double that is n ticks
float32OfTicks(n) ==
    LET a == IF n < 0 THEN -n ELSE n
    IN  IF n < 0 THEN -(roundHalfEven(a, ulpOf(a)) * ulpOf(a))
        ELSE roundHalfEven(a, ulpOf(a)) * ulpOf(a)

\* 360 degrees
Turn == 360 * TicksPerDegree

\* while (lng[i] > limit) lng[i] -= 360, the test being >= when inclusive
RECURSIVE subtractTurns(_, _, _)
subtractTurns(v, limit, inclusive) ==
    IF v > limit \/ (inclusive /\ v = limit)
    THEN subtractTurns(float32OfTicks(v - Turn), limit, inclusive)
    ELSE v

\* while (lng[i] < limit) lng[i] += 360, the test being <= when inclusive
RECURSIVE addTurns(_, _, _)
addTurns(v, limit, inclusive) ==
    IF v < limit \/ (inclusive /\ v = limit)
    THEN addTurns(float32OfTicks(v + Turn), limit, inclusive)
    ELSE v

\* while (v >= 360) v -= 360; while (v < 0) v += 360
normalize0to360(v) == addTurns(subtractTurns(v, Turn, TRUE), 0, FALSE)

\* while (v > 180) v -= 360; while (v <= -180) v += 360
normalize180(v) ==
    addTurns(subtractTurns(v, 180 * TicksPerDegree, FALSE), -180 * TicksPerDegree, TRUE)

normalizeLongitude(v, longitudeFormat) ==
    IF longitudeFormat = "0-360" THEN normalize0to360(v)
    ELSE IF longitudeFormat = "-180-180" THEN normalize180(v)
    ELSE v

\* latitudes that run the other way along a meridian
gridLatitudesReversed(grid) ==
    LET jMultiplier == IF (grid.scanningMode \div 64) % 2 # 0 THEN -1 ELSE 1
    IN  [p \in 1..(grid.ni * grid.nj) |->
            float32OfMicro(grid.latitudeOfFirstGridPoint
                               + ((p - 1) \div grid.ni) * grid.jDirectionIncrement
                                     * jMultiplier)]

\* lat[idx] and lng[idx] for idx = j * ni + i, as sequences indexed by idx + 1
gridLatitudes(grid) ==
    LET jMultiplier == IF (grid.scanningMode \div 64) % 2 # 0 THEN 1 ELSE -1
    IN  [p \in 1..(grid.ni * grid.nj) |->
            float32OfMicro(grid.latitudeOfFirstGridPoint
                               + ((p - 1) \div grid.ni) * grid.jDirectionIncrement
                                     * jMultiplier)]

gridLongitudes(grid, longitudeFormat) ==
    LET iMultiplier == IF (grid.scanningMode \div 128) % 2 = 0 THEN 1 ELSE -1
    IN  [p \in 1..(grid.ni * grid.nj) |->
            normalizeLongitude(
                float32OfMicro(grid.longitudeOfFirstGridPoint
                                   + ((p - 1) % grid.ni) * grid.iDirectionIncrement
                                         * iMultiplier),
                longitudeFormat)]

\* the minimum / maximum loops; Infinity and -Infinity when there is no point
minOf(seq) ==
    IF seq = << >> THEN "Infinity"
    ELSE CHOOSE v \in Range(seq) : \A w \in Range(seq) : v <= w

maxOf(seq) ==
    IF seq = << >> THEN "-Infinity"
    ELSE CHOOSE v \in Range(seq) : \A w \in Range(seq) : v >= w

metadataOf(s1, grid, lat, lng) ==
    [date |-> <<s1.year, s1.month, s1.day, s1.hour, s1.minute, s1.second>>,
     year |-> s1.year,
     month |-> s1.month,
     day |-> s1.day,
     hour |-> s1.hour,
     minute |-> s1.minute,
     second |-> s1.second,
     centreId |-> s1.centreId,
     grid |-> [ni |-> grid.ni,
               nj |-> grid.nj,
               latMin |-> minOf(lat),
               latMax |-> maxOf(lat),
               lngMin |-> minOf(lng),
               lngMax |-> maxOf(lng),
               latIncrement |-> grid.jDirectionIncrement,
               lngIncrement |-> grid.iDirectionIncrement,
               scanningMode |-> grid.scanningMode]]

\* templateData[i], 0-based; undefined past the end
elementAt(templateData, i) ==
    IF i < Len(templateData) THEN templateData[i + 1] ELSE "undefined"

\* an operand of `|` or `<<`: undefined counts as 0
elementOr0(templateData, i) ==
    IF i < Len(templateData) THEN templateData[i + 1] ELSE 0

\* s4 && s4.templateData && s7 && s7.data
hasDecodedData(m) ==
    /\ hasTemplateData(m)
    /\ "section7" \in DOMAIN m.sections
    /\ "data" \in DOMAIN m.sections.section7

\* the level the message loop of getData reads: templateData[9] and [11..14]
dataLevelType(t) == IF Len(t) >= 14 THEN t[10] ELSE "unknown"

dataLevelValue(t) ==
    IF Len(t) >= 14
    THEN (IF t[12] >= 128 THEN t[12] - 256 ELSE t[12]) * 16777216
             + t[13] * 65536 + t[14] * 256 + elementOr0(t, 14)
    ELSE "null"

\* the three filters of the message loop
passesFilters(t, opts) ==
    /\ "parameters" \in DOMAIN opts => getParameterName(t) \in Range(opts.parameters)
    /\ "levelType" \in DOMAIN opts => (Len(t) >= 14 /\ dataLevelType(t) = opts.levelType)
    /\ "levelValue" \in DOMAIN opts => (Len(t) >= 14 /\ dataLevelValue(t) = opts.levelValue)

\* a loop that does not skip the messages the pattern left out
contributesUnmatched(msgs, idx, opts, filter) ==
    /\ hasDecodedData(msgs[idx + 1])
    /\ passesFilters(msgs[idx + 1].sections.section4.templateData, opts)

\* the message at 0-based idx reaches the collection step of the loop
contributes(msgs, idx, opts, filter) ==
    /\ filter.filtered => idx \in filter.indices
    /\ hasDecodedData(msgs[idx + 1])
    /\ passesFilters(msgs[idx + 1].sections.section4.templateData, opts)

\* obj[key] = value
setKey(obj, key, value) ==
    [k \in DOMAIN obj \cup {key} |-> IF k = key THEN value ELSE obj[k]]

\* paramCounts[name], 0 where it is undefined
countOf(paramCounts, name) == IF name \in DOMAIN paramCounts THEN paramCounts[name] ELSE 0

\* a loop body in which a later occurrence always overwrites
collectMessageLast(acc, m, idx, multiLevel, firstParameterOnly) ==
    LET t         == m.sections.section4.templateData
        paramName == getParameterName(t)
    IN  IF multiLevel
        THEN [acc EXCEPT !.result =
                 setKey(@, "levels",
                        Append(@.levels, [messageIndex |-> idx,
                                          parameter |-> paramName,
                                          category |-> elementAt(t, 0),
                                          number |-> elementAt(t, 1),
                                          levelType |-> dataLevelType(t),
                                          levelValue |-> dataLevelValue(t),
                                          data |-> m.sections.section7.data]))]
        ELSE [result |-> setKey(acc.result, paramName, m.sections.section7.data),
              paramCounts |-> setKey(acc.paramCounts, paramName,
                                     countOf(acc.paramCounts, paramName) + 1)]

\* the body of this.messages.forEach for a contributing message
collectMessage(acc, m, idx, multiLevel, firstParameterOnly) ==
    LET t         == m.sections.section4.templateData
        paramName == getParameterName(t)
        data      == m.sections.section7.data
    IN  IF multiLevel
        THEN [acc EXCEPT !.result =
                 setKey(@, "levels",
                        Append(@.levels, [messageIndex |-> idx,
                                          parameter |-> paramName,
                                          category |-> elementAt(t, 0),
                                          number |-> elementAt(t, 1),
                                          levelType |-> dataLevelType(t),
                                          levelValue |-> dataLevelValue(t),
                                          data |-> data]))]
        ELSE IF firstParameterOnly
        THEN [result |-> IF countOf(acc.paramCounts, paramName) = 0
                         THEN setKey(acc.result, paramName, data)
                         ELSE acc.result,
              paramCounts |-> setKey(acc.paramCounts, paramName,
                                     countOf(acc.paramCounts, paramName) + 1)]
        ELSE [result |-> setKey(acc.result, paramName, data),
              paramCounts |-> setKey(acc.paramCounts, paramName,
                                     countOf(acc.paramCounts, paramName) + 1)]

RECURSIVE messageLoop(_, _, _, _, _)
messageLoop(msgs, idx, opts, filter, acc) ==
    IF idx >= Len(msgs) THEN acc
    ELSE messageLoop(msgs, idx + 1, opts, filter,
                     IF contributes(msgs, idx, opts, filter)
                     THEN collectMessage(acc, msgs[idx + 1], idx,
                                         optionOr(opts, "multiLevel", FALSE),
                                         optionOr(opts, "firstParameterOnly", TRUE))
                     ELSE acc)

\* result._warnings when some parameter was seen more than once
withWarnings(res, paramCounts) ==
    LET duplicates == {[parameter |-> name, count |-> paramCounts[name]] :
                          name \in {n \in DOMAIN paramCounts : paramCounts[n] > 1}}
    IN  IF duplicates # {}
        THEN setKey(res, "_warnings", [multiplelevels |-> TRUE, duplicates |-> duplicates])
        ELSE res

\* what JavaScript gives for an element outside an array, and for arithmetic on it
Undefined == [undefined |-> TRUE]

NaN == [nan |-> TRUE]

\* the number n as a decoded value: (0 + n * 2^0) * 10^0
Number(n) == Scaled(ZeroFloat, n, 0, 0)

\* the decoded value is the whole number value.X
isWhole(value) ==
    /\ "X" \in DOMAIN value
    /\ value.R = ZeroFloat
    /\ value.E = 0
    /\ value.D = 0

\* arr[idx], idx 0-based
elementOf(arr, idx) == IF idx >= 0 /\ idx < Len(arr) THEN arr[idx + 1] ELSE Undefined

\* Math.sqrt(s) stored in a Float32Array, s a whole number: the root itself when s is
\* a perfect square, else the float32 nearest to an irrational number
float32Sqrt(s) ==
    LET root == CHOOSE r \in 0..362 : r * r <= s /\ (r + 1) * (r + 1) > s
    IN  IF root * root = s THEN Number(root) ELSE [float32 |-> "sqrt", of |-> s]

\* wind_speed[i] with the second square taken of the wrong operand: Math.sqrt(u * u + u * v)
windSpeedOfCrossed(u, v) ==
    IF u = Undefined \/ v = Undefined THEN NaN
    ELSE IF isWhole(u) /\ isWhole(v) THEN float32Sqrt(u.X * u.X + u.X * v.X)
    ELSE [float32 |-> "sqrt(u*u+u*v)", u |-> u, v |-> v]

\* wind_speed[i] = Math.sqrt(u * u + v * v), kept as a term unless u and v are whole
windSpeedOf(u, v) ==
    IF u = Undefined \/ v = Undefined THEN NaN
    ELSE IF isWhole(u) /\ isWhole(v) THEN float32Sqrt(u.X * u.X + v.X * v.X)
    ELSE [float32 |-> "sqrt(u*u+v*v)", u |-> u, v |-> v]

\* wind_dir[i] = atan2(-u, -v) * 180 / PI, plus 360 when negative.  For whole u, v >= 0
\* the arguments are -0 or negative: atan2(-0, x) is -PI for x = -0 and for x < 0,
\* atan2(y, -0) is -PI / 2 for y < 0; elsewhere the angle is kept as a term
windDirOf(u, v) ==
    IF u = Undefined \/ v = Undefined THEN NaN
    ELSE IF isWhole(u) /\ isWhole(v) /\ u.X = 0 /\ v.X >= 0 THEN Number(180)
    ELSE IF isWhole(u) /\ isWhole(v) /\ u.X > 0 /\ v.X = 0 THEN Number(270)
    ELSE [float32 |-> "atan2(-u,-v)*180/PI, +360 if negative", u |-> u, v |-> v]

\* a conversion that turns the wind by a quarter turn: (u, v) becomes (v, -u)
convertWindsQuarterTurn(res) ==
    [res EXCEPT !.ugrd = res.vgrd,
                !.vgrd = [p \in DOMAIN res.ugrd |->
                             [res.ugrd[p] EXCEPT !.X = 0 - res.ugrd[p].X]]]

\* convertWindsToEarthRelative: gridTemplate has no gridDefinitionTemplateNumber,
\* and no rotation is implemented for any grid: the arrays are left as they are
convertWindsToEarthRelative(res) == res

withWinds(res, opts, grid) ==
    LET both      == "ugrd" \in DOMAIN res /\ "vgrd" \in DOMAIN res
        isGridRelative == (grid.resolutionAndComponentFlags \div 8) % 2 # 0
        rotated   == IF optionOr(opts, "earthRelativeWinds", TRUE) /\ isGridRelative /\ both
                     THEN convertWindsToEarthRelative(res) ELSE res
        speed     == IF optionOr(opts, "calculateWindSpeed", FALSE) /\ both
                     THEN setKey(rotated, "wind_speed",
                                 [p \in 1..res.numPoints |->
                                     windSpeedOf(elementOf(rotated.ugrd, p - 1),
                                                 elementOf(rotated.vgrd, p - 1))])
                     ELSE rotated
    IN  IF optionOr(opts, "calculateWindDirection", FALSE) /\ both
        THEN setKey(speed, "wind_dir",
                    [p \in 1..res.numPoints |->
                        windDirOf(elementOf(rotated.ugrd, p - 1),
                                  elementOf(rotated.vgrd, p - 1))])
        ELSE speed

\* the asObjects conversion: one object per grid point
toObjects(res) ==
    LET paramNames == DOMAIN res \ {"lat", "lng", "metadata", "numPoints", "_warnings"}
    IN  [p \in 1..res.numPoints |->
            [k \in {"lat", "lng"} \cup {n \in paramNames : p \in DOMAIN res[n]} |->
                res[k][p]]]

\* lat, lng, metadata, numPoints
baseResult(s1, grid, lat, lng) ==
    [lat |-> lat, lng |-> lng, metadata |-> metadataOf(s1, grid, lat, lng),
     numPoints |-> grid.ni * grid.nj]

\* result.levels = [] when multiLevel
startResult(base, opts) ==
    IF optionOr(opts, "multiLevel", FALSE) THEN setKey(base, "levels", << >>) ELSE base

\* lines 1356-1447: warnings, winds and output shape on what the message loop collected
shapeResult(collected, opts, grid) ==
    IF optionOr(opts, "multiLevel", FALSE) THEN collected.result
    ELSE IF optionOr(opts, "asObjects", FALSE)
    THEN toObjects(withWinds(withWarnings(collected.result, collected.paramCounts),
                             opts, grid))
    ELSE withWinds(withWarnings(collected.result, collected.paramCounts), opts, grid)

\* lines 1189-1450 once the grid template is known
dataOnGrid(msgs, opts, filter, s1, grid) ==
    [thrown |-> FALSE, err |-> "none",
     value |-> shapeResult(
                   messageLoop(msgs, 0, opts, filter,
                               [result |-> startResult(
                                               baseResult(
                                                   s1, grid, gridLatitudes(grid),
                                                   gridLongitudes(
                                                       grid,
                                                       optionOr(opts, "longitudeFormat",
                                                                "preserve"))),
                                               opts),
                                paramCounts |-> << >>]),
                   opts, grid)]

\* lines 1181-1187: the grid template of messages[messageIndex]
dataFromGridMessage(msgs, opts, filter, firstMessage) ==
    IF ~("section3" \in DOMAIN firstMessage.sections
            /\ "gridTemplate" \in DOMAIN firstMessage.sections.section3)
    THEN [thrown |-> TRUE, err |-> "NoGridTemplate", value |-> << >>]
    ELSE dataOnGrid(msgs, opts, filter, firstMessage.sections.section1,
                    firstMessage.sections.section3.gridTemplate)

\* after the match block; messages[messageIndex] undefined is a TypeError
dataAfterMatch(msgs, opts, filter) ==
    IF filter.thrown THEN [thrown |-> TRUE, err |-> filter.err, value |-> << >>]
    ELSE IF optionOr(opts, "messageIndex", 0) >= Len(msgs)
    THEN [thrown |-> TRUE, err |-> "TypeError", value |-> << >>]
    ELSE dataFromGridMessage(msgs, opts, filter,
                             msgs[optionOr(opts, "messageIndex", 0) + 1])

\* getData() that does not look at the length of the message list first
getDataUnchecked(msgs, opts) == dataAfterMatch(msgs, opts, matchFilter(msgs, opts))

getData(msgs, opts) ==
    IF Len(msgs) = 0 THEN [thrown |-> TRUE, err |-> "NoMessagesParsed", value |-> << >>]
    ELSE dataAfterMatch(msgs, opts, matchFilter(msgs, opts))

(***************************************************************************)
(* bilinearInterpolate and regridBilinear.  Target coordinates, the bounds *)
(* of a new grid and its steps are doubles given in ticks; the increments  *)
(* of the source grid are the micro-degrees of its grid template.          *)
(***************************************************************************)
\* an increment of the grid template in ticks (a whole multiple of 1/64 degree is a
\* whole number of ticks)
incrementTicks(increment) == 65536 * (increment \div 15625)

\* v00 * (1 - wx) * (1 - wy) + v10 * wx * (1 - wy) + v01 * (1 - wx) * wy + v11 * wx * wy
\* with wx = wxTicks / lngInc, wy = wyTicks / latInc: NaN when a corner is undefined,
\* v00 when both weights are 0, else kept as the term of its corners and weights
weightedSum(v00, v10, v01, v11, wxTicks, wyTicks) ==
    IF v00 = Undefined \/ v10 = Undefined \/ v01 = Undefined \/ v11 = Undefined THEN NaN
    ELSE IF wxTicks = 0 /\ wyTicks = 0 THEN v00
    ELSE [v00 |-> v00, v10 |-> v10, v01 |-> v01, v11 |-> v11,
          wx |-> wxTicks, wy |-> wyTicks]

\* lines 1559-1572: the corners around the fractional indices
\* iFloat = dLng / lngInc, jFloat = dLat / latInc
cornersOf(ni, nj, dLng, lngInc, dLat, latInc) ==
    [i0 |-> dLng \div lngInc,
     i1 |-> Min((dLng \div lngInc) + 1, ni - 1),
     j0 |-> dLat \div latInc,
     j1 |-> Min((dLat \div latInc) + 1, nj - 1),
     wx |-> dLng % lngInc,
     wy |-> dLat % latInc]

\* result[param] for an array of the data view
interpolatedValue(arr, ni, c) ==
    weightedSum(elementOf(arr, c.j0 * ni + c.i0), elementOf(arr, c.j0 * ni + c.i1),
                elementOf(arr, c.j1 * ni + c.i0), elementOf(arr, c.j1 * ni + c.i1),
                c.wx, c.wy)

\* parameters.forEach: a parameter the data view does not hold is skipped
RECURSIVE interpolateEach(_, _, _, _, _)
interpolateEach(data, parameters, ni, c, res) ==
    IF parameters = << >> THEN res
    ELSE interpolateEach(data, Tail(parameters), ni, c,
                         IF Head(parameters) \in DOMAIN data
                         THEN setKey(res, Head(parameters),
                                     interpolatedValue(data[Head(parameters)], ni, c))
                         ELSE res)

\* the point record built around the corners c
pointRecord(data, targetLat, targetLng, parameters, ni, c) ==
    [thrown |-> FALSE, err |-> "none",
     value |-> interpolateEach(data, parameters, ni, c,
                               [lat |-> targetLat, lng |-> targetLng, indices |-> c])]

\* null
Null == [null |-> TRUE]

\* bilinearInterpolate on a data view in the separate-arrays form
interpolateInGrid(data, grid, targetLat, targetLng, parameters) ==
    IF targetLat < Min(grid.latMin, grid.latMax)
           \/ targetLat > (IF grid.latMin > grid.latMax THEN grid.latMin ELSE grid.latMax)
           \/ targetLng < grid.lngMin \/ targetLng > grid.lngMax
    THEN [thrown |-> FALSE, err |-> "none", value |-> Null]
    ELSE pointRecord(data, targetLat, targetLng, parameters, grid.ni,
                     cornersOf(grid.ni, grid.nj,
                               targetLng - grid.lngMin, incrementTicks(grid.lngIncrement),
                               targetLat - grid.latMin, incrementTicks(grid.latIncrement)))

\* isList: data is the list of point objects getData({asObjects: true}) returns,
\* which has no lat, lng or metadata
bilinearInterpolate(data, isList, targetLat, targetLng, parameters) ==
    IF isList THEN [thrown |-> TRUE, err |-> "InvalidDataObject", value |-> << >>]
    ELSE interpolateInGrid(data, data.metadata.grid, targetLat, targetLng, parameters)

\* Math.round(a / b) for a >= 0, b > 0
roundQuotient(a, b) == (a \div b) + (IF 2 * (a % b) >= b THEN 1 ELSE 0)

\* newData[param][idx] after the loop body: the interpolated value, NaN outside the
\* source grid, and the 0 of the new Float32Array where the point record lacks param
regridValue(interpolated, param) ==
    IF interpolated.value = Null THEN NaN
    ELSE IF param \in DOMAIN interpolated.value THEN interpolated.value[param]
    ELSE Number(0)

\* newData[param] = new Float32Array(newNumPoints), then filled
RECURSIVE regridEach(_, _, _, _, _)
regridEach(data, newGrid, parameters, all, res) ==
    IF parameters = << >> THEN res
    ELSE regridEach(data, newGrid, Tail(parameters), all,
                    setKey(res, Head(parameters),
                           [p \in 1..res.numPoints |->
                               regridValue(
                                   bilinearInterpolate(
                                       data, FALSE,
                                       newGrid.latMin
                                           + ((p - 1) \div res.metadata.grid.ni)
                                                 * newGrid.latStep,
                                       newGrid.lngMin
                                           + ((p - 1) % res.metadata.grid.ni)
                                                 * newGrid.lngStep,
                                       all),
                                   Head(parameters))]))

\* lat, lng, numPoints and the patched metadata of the new data view; the steps, whole
\* 1/64 degrees given in ticks, are kept in micro-degrees as the increments of a grid are
regridBase(data, newGrid, newNi, newNj) ==
    [lat |-> [p \in 1..(newNi * newNj) |->
                 float32OfTicks(newGrid.latMin + ((p - 1) \div newNi) * newGrid.latStep)],
     lng |-> [p \in 1..(newNi * newNj) |->
                 float32OfTicks(newGrid.lngMin + ((p - 1) % newNi) * newGrid.lngStep)],
     numPoints |-> newNi * newNj,
     metadata |-> [data.metadata EXCEPT
                      !.grid = [@ EXCEPT !.ni = newNi, !.nj = newNj,
                                         !.latMin = newGrid.latMin,
                                         !.latMax = newGrid.latMax,
                                         !.lngMin = newGrid.lngMin,
                                         !.lngMax = newGrid.lngMax,
                                         !.latIncrement = (newGrid.latStep \div 65536) * 15625,
                                         !.lngIncrement = (newGrid.lngStep \div 65536) * 15625]]]

\* regridBilinear on a data view in the separate-arrays form
regridBilinear(data, newGrid, parameters) ==
    regridEach(data, newGrid, parameters, parameters,
               regridBase(data, newGrid,
                          roundQuotient(newGrid.lngMax - newGrid.lngMin, newGrid.lngStep) + 1,
                          roundQuotient(newGrid.latMax - newGrid.latMin, newGrid.latStep) + 1))

\* the patterns getData is called with
MatchPatterns == {":UGRD:", ":(UGRD|VGRD):10 m above ground:", ":TEMP:500 mb:",
                  ":NOTEXIST:", "(UGRD", "UGRD)"}

\* the option objects getData is called with
OptionSets ==
    {[match |-> pattern] : pattern \in MatchPatterns \cup {""}}
        \cup {[messageIndex |-> 0], [messageIndex |-> 1],
              [multiLevel |-> TRUE], [firstParameterOnly |-> FALSE],
              [parameters |-> <<"ugrd", "vgrd">>], [parameters |-> << >>],
              [levelType |-> 0], [levelType |-> 103], [levelValue |-> 2189056],
              [levelValue |-> 10],
              [longitudeFormat |-> "0-360"], [longitudeFormat |-> "-180-180"],
              [calculateWindSpeed |-> TRUE, calculateWindDirection |-> TRUE],
              [asObjects |-> TRUE],
              [match |-> ":(UGRD|VGRD):10 m above ground:", calculateWindSpeed |-> TRUE],
              [match |-> ":VGRD:", messageIndex |-> 1],
              [match |-> ":NOTEXIST:", messageIndex |-> 1],
              [multiLevel |-> TRUE, match |-> ":UGRD:"]}

\* the 1-based index of the message whose section7.data is result[name]: the first
\* contributing message of that name, the last one when firstParameterOnly is false;
\* 0 when there is none
sourceOf(msgs, opts, filter, name) ==
    LET named == {j \in DOMAIN msgs :
                     /\ contributes(msgs, j - 1, opts, filter)
                     /\ getParameterName(msgs[j].sections.section4.templateData) = name}
    IN  IF named = {} THEN 0
        ELSE IF optionOr(opts, "firstParameterOnly", TRUE)
        THEN CHOOSE j \in named : \A i \in named : j <= i
        ELSE CHOOSE j \in named : \A i \in named : j >= i

\* the messages once convertWindsToEarthRelative has worked on the arrays of u and v:
\* result.ugrd and result.vgrd are the section7.data arrays of messages u and v
\* themselves, so what is written to them is written to the messages
messagesWithWinds(msgs, u, v, rotated) ==
    [j \in DOMAIN msgs |->
        IF j = v THEN [msgs[j] EXCEPT !.sections.section7.data = rotated.vgrd]
        ELSE IF j = u THEN [msgs[j] EXCEPT !.sections.section7.data = rotated.ugrd]
        ELSE msgs[j]]

\* this.messages after getData(opts) returned r: lines 1371-1380 hand result.ugrd and
\* result.vgrd to convertWindsToEarthRelative when the grid says its winds are
\* relative to the grid
messagesAfterGetData(msgs, opts, r, filter) ==
    IF r.thrown \/ optionOr(opts, "multiLevel", FALSE)
          \/ ~optionOr(opts, "earthRelativeWinds", TRUE)
          \/ sourceOf(msgs, opts, filter, "ugrd") = 0
          \/ sourceOf(msgs, opts, filter, "vgrd") = 0
          \/ (msgs[optionOr(opts, "messageIndex", 0) + 1].sections.section3.gridTemplate
                  .resolutionAndComponentFlags \div 8) % 2 = 0
    THEN msgs
    ELSE messagesWithWinds(
             msgs, sourceOf(msgs, opts, filter, "ugrd"),
             sourceOf(msgs, opts, filter, "vgrd"),
             convertWindsToEarthRelative(
                 [ugrd |-> msgs[sourceOf(msgs, opts, filter, "ugrd")].sections.section7.data,
                  vgrd |-> msgs[sourceOf(msgs, opts, filter, "vgrd")].sections.section7.data]))

\* what the caller of getData() sees: the error thrown or the value returned
getDataOutcome(r) ==
    /\ queryError' = r.err
    /\ result' = r.value

\* getData(opts) for an option object of optionSets
GetDataWith(optionSets) ==
    /\ pc \in {"idle", "done"}
    /\ lastOp = "none"
    /\ \E opts \in optionSets :
          /\ options' = opts
          /\ getDataOutcome(getData(messages, opts))
          /\ messages' = messagesAfterGetData(messages, opts, getData(messages, opts),
                                              matchFilter(messages, opts))
    /\ lastOp' = "getData"
    /\ inventory' = << >>
    /\ UNCHANGED <<buffer, input, first, offset, pc, messageStart, message, error,
                   steps, derived>>

GetData == GetDataWith(OptionSets)

\* the option objects getData is called with on the generated fields
FieldOptionSets ==
    {[longitudeFormat |-> "preserve"], [longitudeFormat |-> "0-360"],
     [longitudeFormat |-> "-180-180"],
     [calculateWindSpeed |-> TRUE, calculateWindDirection |-> TRUE],
     [multiLevel |-> TRUE, calculateWindSpeed |-> TRUE],
     [asObjects |-> TRUE],
     [earthRelativeWinds |-> TRUE, asObjects |-> TRUE],
     [earthRelativeWinds |-> FALSE, calculateWindSpeed |-> TRUE]}

GetFieldData == GetDataWith(FieldOptionSets)

\* the last getData() returned the list of point objects
returnedList == optionOr(options, "asObjects", FALSE) /\ ~optionOr(options, "multiLevel", FALSE)

\* 0.125 and 0.25 degree in ticks
EighthDegree == TicksPerDegree \div 8

QuarterDegree == TicksPerDegree \div 4

\* the points bilinearInterpolate is called at: every node k of the data view, and
\* the four points 0.125 degree off node 0 in both directions (k = -1)
InterpolationTargets(data) ==
    {[k |-> k, lat |-> data.lat[k + 1], lng |-> data.lng[k + 1]] :
        k \in 0..(data.numPoints - 1)}
        \cup {[k |-> -1, lat |-> data.lat[1] + dLat, lng |-> data.lng[1] + dLng] :
                  dLat \in {-EighthDegree, EighthDegree},
                  dLng \in {-EighthDegree, EighthDegree}}

\* the parameter lists the interpolator is called with
ParameterLists == {<<"ugrd">>, <<"ugrd", "vgrd">>}

\* the new grids regridBilinear is called with, by 0.25 degree: the one-point grid at
\* each node of the data view and, unless the view spans more than 1 degree, its
\* bounding box and that box widened by 0.25 degree on every side
NewGrids(data) ==
    LET g == data.metadata.grid
        box(latMin, latMax, lngMin, lngMax) ==
            [latMin |-> latMin, latMax |-> latMax, lngMin |-> lngMin, lngMax |-> lngMax,
             latStep |-> QuarterDegree, lngStep |-> QuarterDegree]
    IN  {box(data.lat[k], data.lat[k], data.lng[k], data.lng[k]) : k \in 1..data.numPoints}
            \cup (IF g.lngMax - g.lngMin <= 4 * QuarterDegree
                  THEN {box(g.latMin, g.latMax, g.lngMin, g.lngMax),
                        box(g.latMin - QuarterDegree, g.latMax + QuarterDegree,
                            g.lngMin - QuarterDegree, g.lngMax + QuarterDegree)}
                  ELSE {})

\* bilinearInterpolate(data, targetLat, targetLng, parameters) on the value the last
\* getData() returned
BilinearInterpolate ==
    /\ pc = "done"
    /\ lastOp = "getData"
    /\ queryError = "none"
    /\ \E parameters \in ParameterLists :
          IF returnedList
          THEN derived' = [target |-> [k |-> -1, lat |-> 0, lng |-> 0],
                           parameters |-> parameters]
                              @@ bilinearInterpolate(result, TRUE, 0, 0, parameters)
          ELSE \E target \in InterpolationTargets(result) :
                  derived' = [target |-> target, parameters |-> parameters]
                                 @@ bilinearInterpolate(result, FALSE, target.lat,
                                                        target.lng, parameters)
    /\ lastOp' = "bilinearInterpolate"
    /\ UNCHANGED <<buffer, input, first, offset, messages, pc, messageStart, message, error,
                   steps, queryError, inventory, options, result>>

\* regridBilinear(data, newGrid, parameters) on the value the last getData() returned;
\* on the list of point objects data.metadata is undefined: a TypeError
RegridBilinear ==
    /\ pc = "done"
    /\ lastOp = "getData"
    /\ queryError = "none"
    /\ \E parameters \in ParameterLists :
          IF returnedList
          THEN derived' = [parameters |-> parameters, thrown |-> TRUE,
                           err |-> "TypeError", value |-> << >>]
          ELSE \E newGrid \in NewGrids(result) :
                  derived' = [newGrid |-> newGrid, parameters |-> parameters,
                              thrown |-> FALSE, err |-> "none",
                              value |-> regridBilinear(result, newGrid, parameters)]
    /\ lastOp' = "regridBilinear"
    /\ UNCHANGED <<buffer, input, first, offset, messages, pc, messageStart, message, error,
                   steps, queryError, inventory, options, result>>

\* the bit offsets readBits is called at: in the first octets, around the end of the
\* buffer and beyond it
BitOffsets == {0, 1, 5, 8 * byteLength - 9, 8 * byteLength - 1, 8 * byteLength,
               8 * byteLength + 3}

\* the numbers of bits readBits is called for
BitCounts == {0, 1, 7, 8, 9, 16, 31, 32}

\* readBits(bitOffset, numberOfBits) on the reader's buffer
ReadBits ==
    /\ pc \in {"idle", "done"}
    /\ lastOp = "none"
    /\ \E bitOffset \in BitOffsets, numberOfBits \in BitCounts :
          derived' = [bitOffset |-> bitOffset, numberOfBits |-> numberOfBits]
                         @@ readBits(bitOffset, numberOfBits)
    /\ lastOp' = "readBits"
    /\ UNCHANGED <<buffer, input, first, offset, messages, pc, messageStart, message, error,
                   steps, queryError, inventory, options, result>>

Init ==
    /\ input \in Inputs
    /\ buffer = Encode(input)
    /\ offset = 0
    /\ messages = <<>>
    /\ pc = "idle"
    /\ messageStart = 0
    /\ message = <<>>
    /\ error = "none"
    /\ steps = 0
    /\ lastOp = "none"
    /\ queryError = "none"
    /\ inventory = <<>>
    /\ options = <<>>
    /\ result = <<>>
    /\ derived = <<>>
    /\ first = <<>>

Next ==
    \/ ParseBegin
    \/ ParseReturn
    \/ ParseMessageBegin
    \/ MessageReturn
    \/ SectionStep
    \/ GetInventory
    \/ GetData
    \/ GetGrid

Spec == Init /\ [][Next]_vars

(***************************************************************************)
(* The reader over the generated fields, followed by the interpolator.     *)
(***************************************************************************)
FieldInit ==
    /\ input \in FieldInputs
    /\ buffer = EncodeFields(input)
    /\ offset = 0
    /\ messages = <<>>
    /\ pc = "idle"
    /\ messageStart = 0
    /\ message = <<>>
    /\ error = "none"
    /\ steps = 0
    /\ lastOp = "none"
    /\ queryError = "none"
    /\ inventory = <<>>
    /\ options = <<>>
    /\ result = <<>>
    /\ derived = <<>>
    /\ first = <<>>

FieldNext ==
    \/ ParseBegin
    \/ ParseReturn
    \/ ParseMessageBegin
    \/ MessageReturn
    \/ SectionStep
    \/ GetFieldData
    \/ BilinearInterpolate
    \/ RegridBilinear
    \/ ReadBits
    \/ GetInventory
    \/ GetGrid

FieldSpec == FieldInit /\ [][FieldNext]_vars

(***************************************************************************)
(* Properties of parse().                                                  *)
(***************************************************************************)
\* the parameter each well-formed catalogue message carries
ParameterOfItem(id) ==
    CASE id = "ugrd" -> "ugrd"
      [] id = "vgrd" -> "vgrd"
      [] id = "temp" -> "temp"
      [] id = "lambert" -> "pres"
      [] id = "jpeg" -> "rh"
      [] id = "complex" -> "spfh"
      [] id = "ugrd850" -> "ugrd"

TotalLengths(msgs) == [i \in DOMAIN msgs |-> msgs[i].totalLength]

\* C1: for a valid buffer of K concatenated GRIB2 messages, parse() returns exactly
\* K entries, without error, entry i being message i of the buffer (its length and
\* its parameter), and the totalLength fields sum to the buffer's byte length.
C1_RoundTrip ==
    (pc = "done" /\ ValidInput(input)) =>
        /\ error = "none"
        /\ Len(messages) = Len(input)
        /\ \A i \in DOMAIN messages :
              /\ messages[i].totalLength = Len(ItemBytes(input[i]))
              /\ hasTemplateData(messages[i])
              /\ getParameterName(messages[i].sections.section4.templateData)
                     = ParameterOfItem(input[i])
        /\ SumSeq(TotalLengths(messages)) = byteLength

\* a valid buffer of at least two different messages has been parsed
C1_Witness ==
    /\ pc = "done"
    /\ ValidInput(input)
    /\ Len(messages) >= 2
    /\ input[1] # input[2]

\* C2: every loop iteration of parse() and of parseMessage() moves the cursor
\* forward or stops the parse, so that parse() terminates on every finite buffer.
C2_Progress ==
    [][steps' = steps + 1 => (offset' > offset \/ pc' = "done")]_vars

\* the section numbers a message under construction holds
numberOfSection(name) ==
    CASE name = "section1" -> 1
      [] name = "section2" -> 2
      [] name = "section3" -> 3
      [] name = "section4" -> 4
      [] name = "section5" -> 5
      [] name = "section6" -> 6
      [] name = "section7" -> 7

\* C4: a section is accepted into a message only if its number is above the
\* numbers of all sections accepted before it, and a message is returned only
\* with sections 1, 3, 4, 5 and 7 all present.
C4_SectionOrder ==
    [][/\ (pc = "message" /\ pc' = "message" /\ steps' = steps + 1) =>
              \A name \in DOMAIN message.sections :
                  numberOfSection(name) < getUint8(offset + 4)
       /\ Len(messages') > Len(messages) =>
              {"section1", "section3", "section4", "section5", "section7"}
                  \subseteq DOMAIN message.sections]_vars

\* C5: when a message has been returned the cursor is at messageStart + totalLength.
C5_ExactLength ==
    (pc = "parse" /\ Len(messages) > 0) =>
        offset = messageStart + messages[Len(messages)].totalLength

\* C6: a message is returned only if its first four bytes are "GRIB" and the four
\* bytes that end it at messageStart + totalLength are "7777".
C6_Signatures ==
    [][Len(messages') > Len(messages) =>
          /\ fourBytes(messageStart) = GRIB
          /\ InRange(messageStart + message.totalLength - 4, 4)
          /\ fourBytes(messageStart + message.totalLength - 4) = END7777]_vars

\* C7: every message in the list parse() builds has edition 2.
C7_Edition == \A i \in DOMAIN messages : messages[i].edition = 2

\* C8: when parsing a message raises an error, parse() stops at once with the list
\* of the messages completed before, unchanged and without an entry for the failed
\* message, and nothing is parsed after that.
C8_StopOnError ==
    [][/\ (error = "none" /\ error' # "none") => (messages' = messages /\ pc' = "done")
       /\ (pc = "done" /\ pc' = "done") => (messages' = messages /\ offset' = offset)]_vars

\* parse() stopped on an error after one complete message, bytes left unread
C8_Witness ==
    /\ pc = "done"
    /\ error # "none"
    /\ Len(messages) = 1
    /\ offset < byteLength

(***************************************************************************)
(* Properties of getInventory().                                           *)
(***************************************************************************)
\* C3: getInventory() returns one entry per parsed message; entry i (0-based) has
\* messageNumber i + 1 and offset the sum of totalLength over the messages before it.
C3_InventoryIndices ==
    lastOp = "getInventory" =>
        /\ queryError = (IF Len(messages) = 0 THEN "NoMessagesParsed" ELSE "none")
        /\ Len(inventory) = Len(messages)
        /\ \A i \in DOMAIN inventory :
              /\ inventory[i].messageNumber = i
              /\ inventory[i].offset = SumSeq(SubSeq(TotalLengths(messages), 1, i - 1))

\* an inventory of at least two messages has been returned
C3_Witness ==
    /\ lastOp = "getInventory"
    /\ queryError = "none"
    /\ Len(inventory) >= 2
    /\ inventory[2].offset > 0

(***************************************************************************)
(* Properties of getData().                                                *)
(***************************************************************************)
\* section 3 names a grid template other than 0
unsupportedGrid(m) ==
    /\ "section3" \in DOMAIN m.sections
    /\ m.sections.section3.gridDefinitionTemplateNumber # 0

\* section 5 names a data template other than 0, 2 and 3
unsupportedData(m) ==
    /\ "section5" \in DOMAIN m.sections
    /\ m.sections.section5.dataRepresentationTemplateNumber \notin {0, 2, 3}

hasSection7(m) == "section7" \in DOMAIN m.sections

\* the keys of a getData() result that hold parameter arrays read from messages
parameterKeys(res) ==
    DOMAIN res \ {"lat", "lng", "metadata", "numPoints", "levels", "_warnings",
                  "wind_speed", "wind_dir"}

\* getData() returned the separate-arrays form
returnedArrays ==
    lastOp = "getData" /\ queryError = "none" /\ "asObjects" \notin DOMAIN options

\* every parameter array and every level of the result is the decoded data of a
\* message whose data template is supported
fromSupportedMessages ==
    /\ \A k \in parameterKeys(result) :
          \E j \in DOMAIN messages :
              /\ ~unsupportedData(messages[j])
              /\ hasDecodedData(messages[j])
              /\ getParameterName(messages[j].sections.section4.templateData) = k
              /\ messages[j].sections.section7.data = result[k]
    /\ "levels" \in DOMAIN result =>
          \A n \in DOMAIN result.levels :
              ~unsupportedData(messages[result.levels[n].messageIndex + 1])

\* the message getData() takes the grid from has no decoded grid template
gridMessageHasNoGrid ==
    LET index == optionOr(options, "messageIndex", 0)
    IN  /\ index < Len(messages)
        /\ ~("section3" \in DOMAIN messages[index + 1].sections
                /\ "gridTemplate" \in DOMAIN messages[index + 1].sections.section3)

matchingLines ==
    {i \in DOMAIN messages :
        regexTest(options.match, getInventory(messages).value[i].inventoryLine)}

\* C10: with messages parsed, getData({match: p}) throws "No messages match pattern"
\* when p compiles and matches no inventory line, throws "Invalid match pattern" when
\* p does not compile, and returns no data in either case.
C10_NoMatch ==
    (lastOp = "getData" /\ Len(messages) > 0 /\ "match" \in DOMAIN options
         /\ options.match # "") =>
        /\ ~regexCompiles(options.match) =>
              (queryError = "InvalidPattern" /\ result = << >>)
        /\ (regexCompiles(options.match) /\ matchingLines = {}) =>
              (queryError = "NoMatch" /\ result = << >>)
        /\ (regexCompiles(options.match) /\ matchingLines # {}) =>
              queryError \notin {"NoMatch", "InvalidPattern"}

\* getData() was called with a pattern that compiles and matches none of the lines
C10_Witness ==
    /\ lastOp = "getData"
    /\ Len(messages) > 0
    /\ "match" \in DOMAIN options
    /\ regexCompiles(options.match)
    /\ matchingLines = {}
    /\ queryError = "NoMatch"

\* the 1-based indices of the parsed messages that pass every filter of the last
\* getData(): the inventory line matches the pattern when one was given, the message
\* has a decoded field, and the parameter and level filters accept it
passingMessages ==
    {j \in DOMAIN messages :
        /\ ("match" \in DOMAIN options /\ options.match # "") => j \in matchingLines
        /\ hasDecodedData(messages[j])
        /\ passesFilters(messages[j].sections.section4.templateData, options)}

\* the short name of parsed message j
nameOf(j) == getParameterName(messages[j].sections.section4.templateData)

\* the decoded field of parsed message j
fieldOf(j) == messages[j].sections.section7.data

\* C11: when getData() is called with a match regex, every parameter array (every
\* level in multi-level mode) of the result is the field of a message whose inventory
\* line matches the regex, every short name of a matching message is in the result,
\* and no message whose inventory line does not match contributes.
C11_MatchOnly ==
    (returnedArrays /\ "match" \in DOMAIN options /\ options.match # "") =>
        IF "levels" \in DOMAIN result
        THEN /\ {result.levels[n].messageIndex + 1 : n \in DOMAIN result.levels}
                    = passingMessages
             /\ \A n \in DOMAIN result.levels :
                    /\ result.levels[n].messageIndex + 1 \in matchingLines
                    /\ result.levels[n].data = fieldOf(result.levels[n].messageIndex + 1)
        ELSE /\ parameterKeys(result) = {nameOf(j) : j \in passingMessages}
             /\ \A k \in parameterKeys(result) :
                    /\ \E j \in matchingLines :
                           /\ hasDecodedData(messages[j])
                           /\ nameOf(j) = k
                           /\ fieldOf(j) = result[k]
                    /\ \A j \in DOMAIN messages \ matchingLines :
                           (hasDecodedData(messages[j])
                                /\ \A i \in matchingLines :
                                       hasDecodedData(messages[i]) =>
                                           fieldOf(i) # fieldOf(j)) =>
                               result[k] # fieldOf(j)

\* UGRD at 850 mb followed by UGRD at 10 m, matched at 10 m above ground: the ugrd
\* array returned is the field of the second message, not of the first
C11_Witness ==
    /\ returnedArrays
    /\ "match" \in DOMAIN options
    /\ options.match = ":(UGRD|VGRD):10 m above ground:"
    /\ Len(messages) = 2
    /\ matchingLines = {2}
    /\ hasDecodedData(messages[1])
    /\ nameOf(1) = "ugrd"
    /\ "ugrd" \in DOMAIN result
    /\ result.ugrd = fieldOf(2)
    /\ result.ugrd # fieldOf(1)

\* the message whose field getData() keeps for short name k among the messages S:
\* the first one unless firstParameterOnly is false, then the last one
keptIndex(S, k) ==
    LET named == {j \in S : nameOf(j) = k}
    IN  IF optionOr(options, "firstParameterOnly", TRUE)
        THEN CHOOSE j \in named : \A i \in named : j <= i
        ELSE CHOOSE j \in named : \A i \in named : j >= i

\* C12: in non-multi-level getData(), result[p] is the decoded field of the
\* lowest-index message that passes all filters and has short name p when
\* firstParameterOnly is true or absent, and of the highest-index one when it is false.
C12_FirstOrLast ==
    (returnedArrays /\ ~optionOr(options, "multiLevel", FALSE)) =>
        /\ parameterKeys(result) = {nameOf(j) : j \in passingMessages}
        /\ \A k \in parameterKeys(result) :
               result[k] = fieldOf(keptIndex(passingMessages, k))

\* two messages of the same short name and different fields were read with
\* firstParameterOnly false, and the field of the second one was returned
C12_Witness ==
    /\ returnedArrays
    /\ options = [firstParameterOnly |-> FALSE]
    /\ Len(messages) = 2
    /\ passingMessages = {1, 2}
    /\ nameOf(1) = nameOf(2)
    /\ fieldOf(1) # fieldOf(2)
    /\ result[nameOf(2)] = fieldOf(2)

(***************************************************************************)
(* Properties of the coordinate arrays.                                    *)
(***************************************************************************)
\* the grid template of the message the last getData() took its grid from
gridOfData ==
    messages[optionOr(options, "messageIndex", 0) + 1].sections.section3.gridTemplate

\* getData() returned arrays with the longitudes as computed
preserved ==
    returnedArrays /\ optionOr(options, "longitudeFormat", "preserve") = "preserve"

iSign(grid) == IF (grid.scanningMode \div 128) % 2 = 1 THEN -1 ELSE 1

jSign(grid) == IF (grid.scanningMode \div 64) % 2 = 1 THEN 1 ELSE -1

\* the array element of t ticks is the number v / 1e6 exactly: v / 1e6 is a whole
\* number of ticks only when v is a multiple of 15625 (1e6 = 2^6 * 15625)
sameNumber(t, v) == v % 15625 = 0 /\ t = (v \div 15625) * 65536

\* the latitude and the longitude, in micro-degrees, that C13 gives to point (i, j)
latitudeAt(grid, j) ==
    grid.latitudeOfFirstGridPoint + j * grid.jDirectionIncrement * jSign(grid)

longitudeAt(grid, i) ==
    grid.longitudeOfFirstGridPoint + i * grid.iDirectionIncrement * iSign(grid)

C14_LongitudeRange ==
    returnedArrays =>
        \A p \in DOMAIN result.lng :
            /\ optionOr(options, "longitudeFormat", "preserve") = "-180-180" =>
                   /\ -180 * TicksPerDegree < result.lng[p]
                   /\ result.lng[p] <= 180 * TicksPerDegree
                   /\ (result.lng[p]
                          - float32OfMicro(longitudeAt(gridOfData,
                                                       (p - 1) % gridOfData.ni))) % Turn = 0
            /\ optionOr(options, "longitudeFormat", "preserve") = "0-360" =>
                   /\ 0 <= result.lng[p]
                   /\ result.lng[p] < Turn
                   /\ (result.lng[p]
                          - float32OfMicro(longitudeAt(gridOfData,
                                                       (p - 1) % gridOfData.ni))) % Turn = 0

(***************************************************************************)
(* Properties of the derived wind arrays.                                  *)
(***************************************************************************)
\* the decoded value is the number 0
isZero(value) == isWhole(value) /\ value.X = 0

\* C15: with calculateWindDirection set, every wind_dir value getData() returns lies
\* in [0, 360), and at every point where ugrd = vgrd = 0 the direction is 0.
C15_WindDirection ==
    (returnedArrays /\ "wind_dir" \in DOMAIN result) =>
        \A p \in DOMAIN result.wind_dir :
            /\ isWhole(result.wind_dir[p]) =>
                   (0 <= result.wind_dir[p].X /\ result.wind_dir[p].X < 360)
            /\ (isZero(result.ugrd[p]) /\ isZero(result.vgrd[p])) =>
                   isZero(result.wind_dir[p])

(***************************************************************************)
(* Properties of bilinearInterpolate and regridBilinear.                   *)
(***************************************************************************)
\* bilinearInterpolate was called on a data view at its grid node k >= 0
interpolatedAtNode ==
    lastOp = "bilinearInterpolate" /\ ~derived.thrown /\ derived.target.k >= 0

\* C16: for a data view d returned by getData() over any template-0 grid (any scanning
\* mode, any longitude format) and every grid index k,
\* bilinearInterpolate(d, d.lat[k], d.lng[k], params) is not null and returns for each
\* requested parameter p the source value d[p][k].
C16_NodeIdentity ==
    interpolatedAtNode =>
        /\ derived.value # Null
        /\ \A n \in DOMAIN derived.parameters :
               (/\ derived.parameters[n] \in DOMAIN result
                /\ derived.target.k + 1 \in DOMAIN result[derived.parameters[n]]) =>
                   /\ derived.parameters[n] \in DOMAIN derived.value
                   /\ derived.value[derived.parameters[n]]
                          = result[derived.parameters[n]][derived.target.k + 1]

\* the point lies outside the closed box [latMin, latMax] x [lngMin, lngMax] of grid
outsideBox(grid, lat, lng) ==
    lat < grid.latMin \/ lat > grid.latMax \/ lng < grid.lngMin \/ lng > grid.lngMax

\* the latitude and longitude of point p (from 1) of a new grid of ni columns
newLatitude(newGrid, ni, p) == newGrid.latMin + ((p - 1) \div ni) * newGrid.latStep

newLongitude(newGrid, ni, p) == newGrid.lngMin + ((p - 1) % ni) * newGrid.lngStep

\* C17: bilinearInterpolate returns null (without raising) exactly when the target lies
\* outside the closed box [latMin, latMax] x [lngMin, lngMax] of the source grid, and
\* regridBilinear sets every requested parameter to NaN at exactly those new-grid
\* points; the new grid has round((lngMax - lngMin) / lngStep) + 1 columns and
\* round((latMax - latMin) / latStep) + 1 rows.
C17_OutsideIsNaN ==
    /\ (lastOp = "bilinearInterpolate" /\ ~returnedList) =>
           /\ ~derived.thrown
           /\ derived.value = Null
                  <=> outsideBox(result.metadata.grid, derived.target.lat, derived.target.lng)
    /\ (lastOp = "regridBilinear" /\ ~returnedList) =>
           /\ ~derived.thrown
           /\ derived.value.metadata.grid.ni
                  = roundQuotient(derived.newGrid.lngMax - derived.newGrid.lngMin,
                                  derived.newGrid.lngStep) + 1
           /\ derived.value.metadata.grid.nj
                  = roundQuotient(derived.newGrid.latMax - derived.newGrid.latMin,
                                  derived.newGrid.latStep) + 1
           /\ derived.value.numPoints
                  = derived.value.metadata.grid.ni * derived.value.metadata.grid.nj
           /\ \A n \in DOMAIN derived.parameters, p \in 1..derived.value.numPoints :
                  derived.value[derived.parameters[n]][p] = NaN
                      <=> outsideBox(result.metadata.grid,
                                     newLatitude(derived.newGrid,
                                                 derived.value.metadata.grid.ni, p),
                                     newLongitude(derived.newGrid,
                                                  derived.value.metadata.grid.ni, p))

(***************************************************************************)
(* Properties of the decoded fields.                                       *)
(***************************************************************************)
\* message m carries a grid definition and a field decoded by template 5.0, 5.2 or 5.3
hasDecodedField(m) ==
    /\ "section3" \in DOMAIN m.sections
    /\ "section5" \in DOMAIN m.sections
    /\ "section7" \in DOMAIN m.sections
    /\ m.sections.section5.dataRepresentationTemplateNumber \in {0, 2, 3}
    /\ "data" \in DOMAIN m.sections.section7

\* C18: for every parsed message whose section 5 template is 0, 2 or 3, the decoded
\* field in section 7 has length equal to section 5's numberOfDataPoints, and that
\* equals section 3's numberOfDataPoints.
C18_FieldLength ==
    \A i \in DOMAIN messages :
        hasDecodedField(messages[i]) =>
            /\ Len(messages[i].sections.section7.data)
                   = messages[i].sections.section5.numberOfDataPoints
            /\ messages[i].sections.section5.numberOfDataPoints
                   = messages[i].sections.section3.numberOfDataPoints

\* getData() was asked for the wind speed outside multi-level mode and returned arrays
speedRequested ==
    /\ returnedArrays
    /\ optionOr(options, "calculateWindSpeed", FALSE)
    /\ ~optionOr(options, "multiLevel", FALSE)

\* the array the result holds under name is the decoded field of a parsed message
isDecodedField(name) ==
    \E i \in DOMAIN messages :
        /\ "section7" \in DOMAIN messages[i].sections
        /\ "data" \in DOMAIN messages[i].sections.section7
        /\ result[name] = messages[i].sections.section7.data

\* u * u + v * v at point p (from 1) of the result, for whole ugrd and vgrd
sumOfSquares(p) == result.ugrd[p].X * result.ugrd[p].X + result.vgrd[p].X * result.vgrd[p].X

\* wind_speed is added exactly when ugrd and vgrd are both in the result, with one
\* value per grid point, and ugrd and vgrd are the decoded fields still
speedArrayAdded ==
    /\ "wind_speed" \in DOMAIN result
           <=> ("ugrd" \in DOMAIN result /\ "vgrd" \in DOMAIN result)
    /\ "wind_speed" \in DOMAIN result =>
           /\ Len(result.wind_speed) = result.numPoints
           /\ isDecodedField("ugrd")
           /\ isDecodedField("vgrd")

sameConstant(a, b) ==
    /\ a.X = 0
    /\ b.X = 0
    /\ a.R = b.R
    /\ (a.R.exponent = 0 /\ a.R.fraction = 0) \/ a.D = b.D

\* C20: simple packing (template 5.0): when bits = 0 the decoded field is N copies of
\* R * 10^(-D), and when bits > 0 value i equals (R + X_i * 2^E) * 10^(-D) where X_i is
\* the unsigned integer in bits [i * bits, (i + 1) * bits) of the section 7 payload; so
\* bits = 0 gives the same field as packed values that are all 0, for every D.
C20_SimplePacking ==
    \A i \in DOMAIN messages :
        (/\ hasDecodedField(messages[i])
         /\ messages[i].sections.section5.dataRepresentationTemplateNumber = 0) =>
            \A p \in DOMAIN messages[i].sections.section7.data :
                /\ messages[i].sections.section5.template.numberOfBits = 0 =>
                       sameConstant(
                           messages[i].sections.section7.data[p],
                           Scaled(messages[i].sections.section5.template.referenceValue, 0,
                                  messages[i].sections.section5.template.binaryScaleFactor,
                                  messages[i].sections.section5.template.decimalScaleFactor))
                /\ messages[i].sections.section5.template.numberOfBits = 8 =>
                       messages[i].sections.section7.data[p]
                           = Scaled(messages[i].sections.section5.template.referenceValue,
                                    input[i].payload[p],
                                    messages[i].sections.section5.template.binaryScaleFactor,
                                    messages[i].sections.section5.template.decimalScaleFactor)

(***************************************************************************)
(* Properties of complex packing, on the generated complex-packed fields:  *)
(* message i of the buffer is the field input[i].                          *)
(***************************************************************************)
\* message i is a parsed complex-packed field with its whole payload and as many
\* groups as section 5 declares
isComplexField(i) ==
    /\ hasDecodedField(messages[i])
    /\ input[i].template \in {2, 3}
    /\ input[i].packing.numberOfGroups = Len(input[i].packing.groups)
    /\ input[i].payload = complexPayload(input[i])

\* the integer field the groups g unpack to: each value added to its group reference
RECURSIVE unpackedOf(_)
unpackedOf(g) ==
    IF g = << >> THEN << >>
    ELSE [k \in DOMAIN Head(g).values |-> Head(g).ref + Head(g).values[k]]
             \o unpackedOf(Tail(g))

\* the decoder reads the extra descriptors of field f (see C22) or f has none
descriptorsRead(f) == f.template = 2 \/ f.packing.extraOctets \in {1, 2}

\* the integer value of point n (from 1) of the decoded field of message i
integerAt(i, n) == messages[i].sections.section7.data[n].X

\* C21: spatial-differencing reversal (template 5.3) over the unpacked integer field U
\* of length N: for order 1 the result is I[0] = h1 and I[n] = U[n] + g_min + I[n-1]
\* for 1 <= n < N; for order 2 it is I[0] = h1, I[1] = h2 and
\* I[n] = U[n] + g_min + 2*I[n-1] - I[n-2] for 2 <= n < N; for template 5.2 the field
\* is left as unpacked.  With order 1, h1 = 100, g_min = -2 and
\* U = 100,100,100,100,100 the result is 100, 198, 296, 394, 492.
C21_Reversal ==
    \A i \in DOMAIN messages :
        (isComplexField(i) /\ descriptorsRead(input[i])) =>
            LET U == unpackedOf(input[i].packing.groups)
                p == input[i].packing
            IN  /\ Len(messages[i].sections.section7.data) = Len(U)
                /\ input[i].template = 2 => \A n \in DOMAIN U : integerAt(i, n) = U[n]
                /\ (input[i].template = 3 /\ p.order = 1) =>
                       /\ integerAt(i, 1) = p.h1
                       /\ \A n \in 2..Len(U) :
                              integerAt(i, n) = U[n] + p.gmin + integerAt(i, n - 1)
                /\ (input[i].template = 3 /\ p.order = 2) =>
                       /\ integerAt(i, 1) = p.h1
                       /\ Len(U) >= 2 => integerAt(i, 2) = p.h2
                       /\ \A n \in 3..Len(U) :
                              integerAt(i, n) = U[n] + p.gmin + 2 * integerAt(i, n - 1)
                                                    - integerAt(i, n - 2)
                /\ (input[i].template = 3 /\ p.order = 1 /\ p.h1 = 100 /\ p.gmin = -2
                        /\ U = <<100, 100, 100, 100, 100>>) =>
                       [n \in 1..5 |-> integerAt(i, n)] = <<100, 198, 296, 394, 492>>

\* the field of the example was decoded: order 1, h1 = 100, g_min = -2 and five
\* unpacked values of 100
C21_Witness ==
    /\ Len(messages) = 1
    /\ isComplexField(1)
    /\ input[1].template = 3
    /\ input[1].packing.order = 1
    /\ input[1].packing.h1 = 100
    /\ input[1].packing.gmin = -2
    /\ unpackedOf(input[1].packing.groups) = <<100, 100, 100, 100, 100>>
    /\ integerAt(1, 5) = 492

\* the byte offset of the section 7 payload of message i: the messages before it, then
\* section 0 and sections 1, 3, 4 and 5 of the generated field and the 5 octets of
\* the section 7 header
payloadOffset(i) ==
    SumSeq([k \in 1..(i - 1) |-> messages[k].totalLength])
        + 16 + messages[i].sections.section1.length + messages[i].sections.section3.length
        + messages[i].sections.section4.length + messages[i].sections.section5.length + 5

\* the extra descriptors as decodeComplexPacking reads them for message i
headerOf(i) == spatialDiffHeader(payloadOffset(i), messages[i].sections.section5.template)

\* C22: for template 5.3 with order 1 or 2 and every extra-descriptor octet count
\* ne >= 1 (nbitsd = 8 * ne) the decoder reads h1 (and h2 when order = 2) as nbitsd-bit
\* unsigned values, then a sign bit and an (nbitsd - 1)-bit magnitude with
\* g_min = -magnitude if the sign bit is 1 and +magnitude otherwise, and starts reading
\* group references exactly (order + 1) * nbitsd bits after the start of the payload;
\* for template 5.2 no header is read.
C22_Header ==
    \A i \in DOMAIN messages :
        isComplexField(i) =>
            /\ input[i].template = 2 =>
                   /\ headerOf(i).bitOffset = 8 * payloadOffset(i)
                   /\ headerOf(i).overallMin = 0
            /\ input[i].template = 3 =>
                   /\ ~headerOf(i).thrown
                   /\ headerOf(i).h1 = input[i].packing.h1
                   /\ input[i].packing.order = 2 => headerOf(i).h2 = input[i].packing.h2
                   /\ headerOf(i).overallMin = input[i].packing.gmin
                   /\ headerOf(i).bitOffset
                          = 8 * payloadOffset(i)
                                + (input[i].packing.order + 1) * 8 * input[i].packing.extraOctets
                   /\ integerAt(i, 1) = input[i].packing.h1

\* the three metadata arrays as decodeComplexPacking reads them for message i, each
\* with the bit cursor it leaves
groupReferencesOf(i) ==
    readGroupArray(headerOf(i).bitOffset,
                   messages[i].sections.section5.template.numberOfGroups,
                   messages[i].sections.section5.template.numberOfBits)

groupWidthsOf(i) ==
    readGroupArray(groupReferencesOf(i).bitOffset,
                   messages[i].sections.section5.template.numberOfGroups,
                   messages[i].sections.section5.template.numberOfBitsForGroupWidths)

groupLengthsOf(i) ==
    readGroupArray(groupWidthsOf(i).bitOffset,
                   messages[i].sections.section5.template.numberOfGroups,
                   messages[i].sections.section5.template.numberOfBitsForScaledGroupLengths)

\* the cursor after is the cursor before moved over count values of nbits bits and
\* then up to the next byte boundary
alignedAfter(before, count, nbits, after) ==
    /\ after % 8 = 0
    /\ after >= before + count * nbits
    /\ after < before + count * nbits + 8

\* C23: in complex-packing decoding, for every group count G and every field width,
\* after each of the three metadata arrays (group references, group widths, group
\* lengths) the bit cursor is rounded up to the next byte boundary, so group widths,
\* group lengths and the packed values each start at a bit offset that is a multiple
\* of 8 and no smaller than the end of the preceding array, also when a
\* spatial-differencing header precedes the group references.
C23_ByteAligned ==
    \A i \in DOMAIN messages :
        isComplexField(i) =>
            /\ ~groupReferencesOf(i).thrown
            /\ ~groupWidthsOf(i).thrown
            /\ ~groupLengthsOf(i).thrown
            /\ alignedAfter(headerOf(i).bitOffset,
                            messages[i].sections.section5.template.numberOfGroups,
                            messages[i].sections.section5.template.numberOfBits,
                            groupReferencesOf(i).bitOffset)
            /\ alignedAfter(groupReferencesOf(i).bitOffset,
                            messages[i].sections.section5.template.numberOfGroups,
                            messages[i].sections.section5.template.numberOfBitsForGroupWidths,
                            groupWidthsOf(i).bitOffset)
            /\ alignedAfter(groupWidthsOf(i).bitOffset,
                            messages[i].sections.section5.template.numberOfGroups,
                            messages[i].sections.section5.template
                                .numberOfBitsForScaledGroupLengths,
                            groupLengthsOf(i).bitOffset)
            /\ descriptorsRead(input[i]) =>
                   /\ groupReferencesOf(i).values
                          = [g \in DOMAIN input[i].packing.groups |->
                                input[i].packing.groups[g].ref]
                   /\ groupWidths(groupWidthsOf(i), messages[i].sections.section5.template)
                          = [g \in DOMAIN input[i].packing.groups |->
                                input[i].packing.groups[g].width]
                   /\ groupLengths(groupLengthsOf(i), messages[i].sections.section5.template)
                          = [g \in DOMAIN input[i].packing.groups |->
                                Len(input[i].packing.groups[g].values)]

\* a field was decoded whose two 5-bit group references and two 3-bit group widths end
\* inside a byte, behind a second-order spatial-differencing header of 2-octet
\* descriptors
C23_Witness ==
    /\ Len(messages) = 1
    /\ isComplexField(1)
    /\ input[1].template = 3
    /\ input[1].packing.order = 2
    /\ input[1].packing.extraOctets = 2
    /\ messages[1].sections.section5.template.numberOfGroups = 2
    /\ messages[1].sections.section5.template.numberOfBits = 5
    /\ messages[1].sections.section5.template.numberOfBitsForGroupWidths = 3
    /\ headerOf(1).bitOffset = 8 * payloadOffset(1) + 48
    /\ groupReferencesOf(1).bitOffset = headerOf(1).bitOffset + 16
    /\ groupWidthsOf(1).bitOffset = headerOf(1).bitOffset + 24

(***************************************************************************)
(* Properties of truncated payloads.                                       *)
(***************************************************************************)
\* section 7 of the field f holds fewer bits than its values take, behind the arrays
\* of as many groups as section 5 declares
isTruncated(f) ==
    IF f.template = 0
    THEN 8 * Len(f.payload) < f.points5 * f.bits
    ELSE /\ f.packing.numberOfGroups = Len(f.packing.groups)
         /\ Len(f.payload) < Len(complexPayload(f))

\* the width of each value of the groups g
RECURSIVE widthsOf(_)
widthsOf(g) ==
    IF g = << >> THEN << >>
    ELSE [k \in DOMAIN Head(g).values |-> Head(g).width] \o widthsOf(Tail(g))

\* how many leading values of the given widths fit in bitsLeft bits
RECURSIVE keptCount(_, _)
keptCount(widths, bitsLeft) ==
    IF widths = << >> \/ Head(widths) > bitsLeft THEN 0
    ELSE 1 + keptCount(Tail(widths), bitsLeft - Head(widths))

\* the bits of section 7 of the complex-packed field f that hold group values
valueBitsOf(f) ==
    8 * (Len(f.payload)
            - (Len(complexPayload(f)) - Len(padded(groupBits(f.packing.groups))) \div 8))

\* the number of values section 7 of the field f holds in full
producedCount(f) ==
    IF f.template = 0
    THEN (8 * Len(f.payload)) \div f.bits
    ELSE keptCount(widthsOf(f.packing.groups), valueBitsOf(f))

\* value n (from 1) as packed in section 7 of the field f: 16-bit values for simple
\* packing, reference plus group value for complex packing
packedAt(f, n) ==
    IF f.template = 0
    THEN 256 * f.payload[2 * n - 1] + f.payload[2 * n]
    ELSE unpackedOf(f.packing.groups)[n]

\* C24: when the section 7 payload ends before N values have been produced (templates
\* 5.0, 5.2 and 5.3), decoding does not fail and reads no value bits from beyond the
\* end of the section: the values already produced are kept, every remaining integer
\* value is 0, the field still has length N, and the message is retained in parse()'s
\* result.
C24_Truncated ==
    pc = "done" =>
        \A i \in DOMAIN input :
            isTruncated(input[i]) =>
                /\ i \in DOMAIN messages
                /\ hasDecodedField(messages[i])
                /\ Len(messages[i].sections.section7.data) = input[i].points5
                /\ \A n \in 1..input[i].points5 :
                       /\ n > producedCount(input[i]) => integerAt(i, n) = 0
                       /\ (n <= producedCount(input[i]) /\ input[i].template # 3) =>
                              integerAt(i, n) = packedAt(input[i], n)

(***************************************************************************)
(* Properties of readBits.                                                 *)
(***************************************************************************)
\* bit k (from 0, most significant bit of octet 0 first) of the buffer
bitAt(k) == (buffer[(k \div 8) + 1] \div (2 ^ (7 - (k % 8)))) % 2

\* the binary digits of value, of weights 2^(n-1) .. 2^0, are the n buffer bits from
\* bitOffset on; a digit of weight 2^31 is 0 in every number readBits can return
digitsAre(value, bitOffset, n) ==
    \A j \in 0..(n - 1) :
        IF n - 1 - j = 31
        THEN bitAt(bitOffset + j) = 0
        ELSE (value \div (2 ^ (n - 1 - j))) % 2 = bitAt(bitOffset + j)

\* C25: readBits(bitOffset, n) for every buffer, every bitOffset >= 0 and every
\* 0 <= n <= 32: if bitOffset + n <= 8 * buffer length it returns the unsigned integer
\* in [0, 2^n) whose binary digits are the n buffer bits starting at bitOffset, most
\* significant first, across byte boundaries (0 when n = 0); otherwise it fails with
\* an out-of-bounds error.  It never returns a negative number.
C25_ReadBits ==
    lastOp = "readBits" =>
        IF derived.bitOffset + derived.numberOfBits <= 8 * Len(buffer)
        THEN /\ ~derived.thrown
             /\ derived.value >= 0
             /\ derived.numberOfBits <= 30 => derived.value < 2 ^ derived.numberOfBits
             /\ digitsAre(derived.value, derived.bitOffset, derived.numberOfBits)
        ELSE /\ derived.thrown
             /\ derived.err = "OutOfBounds"

(***************************************************************************)
(* Properties of the level filters of getData().                           *)
(***************************************************************************)
\* the level getInventory() derives for parsed message j: the type of the first fixed
\* surface at templateData[13], its scaled value at templateData[15..18]
inventoryLevelType(j) == messages[j].sections.section4.templateData[14]

inventoryScaledValue(j) == int32At(messages[j].sections.section4.templateData, 15)

\* the parsed messages with a decoded field whose inventory level is the one the last
\* getData() asked for
atRequestedLevel ==
    {j \in DOMAIN messages :
        /\ hasDecodedData(messages[j])
        /\ Len(messages[j].sections.section4.templateData) >= 19
        /\ "levelType" \in DOMAIN options => inventoryLevelType(j) = options.levelType
        /\ "levelValue" \in DOMAIN options => inventoryScaledValue(j) = options.levelValue}

\* C26: getData()'s level_type / level_value filters read a message's level from the
\* same section 4 template bytes as the inventory (type at template byte 13, scale at
\* 14, scaled value at 15..18): a message is kept by level_type = T (and
\* level_value = V) if and only if getInventory() derives level type T (and scaled
\* value V) for that message.
C26_LevelFilter ==
    (returnedArrays /\ DOMAIN options \in {{"levelType"}, {"levelValue"}}) =>
        parameterKeys(result) = {nameOf(j) : j \in atRequestedLevel}

(***************************************************************************)
(* Properties of the queries on an empty message list.                     *)
(***************************************************************************)
Queries == {"getGrid", "getInventory", "getData"}

\* the last query threw 'No messages parsed. Call parse() first.' exactly on an empty
\* message list, and then returned nothing
emptyListRefused ==
    lastOp \in Queries =>
        IF Len(messages) = 0
        THEN queryError = "NoMessagesParsed" /\ result = << >> /\ inventory = << >>
        ELSE queryError # "NoMessagesParsed"

\* a query that fails leaves the messages and the cursor as they were
failedQueryKeepsReader ==
    (lastOp' \in Queries /\ lastOp = "none" /\ queryError' # "none") =>
        (messages' = messages /\ offset' = offset)

\* C27: getGrid(), getInventory() and getData() all fail with the error 'No messages
\* parsed. Call parse() first.' whenever the reader's message list is empty, whether
\* parse() was never called or parse() ran and produced zero messages, and a failed
\* call leaves the reader's messages and cursor unchanged; once parse() has produced
\* at least one message none of the three raises that error.
C27_EmptyList == [](emptyListRefused) /\ [][failedQueryKeepsReader]_vars

\* parse() ran over a buffer, found no message and left the cursor beyond 0, and the
\* getData() that followed was refused
C27_Witness ==
    /\ pc = "done"
    /\ Len(messages) = 0
    /\ offset > 0
    /\ lastOp = "getData"
    /\ queryError = "NoMessagesParsed"

(***************************************************************************)
(* Properties of repeated parse() calls.                                   *)
(***************************************************************************)
\* C28: parse() is repeatable: every call resets the cursor to 0 and the message list
\* to empty before walking, so calling parse() any number of times on the same reader
\* yields the same number of messages with identical metadata and bit-identical
\* decoded fields as the first call; messages never accumulate across calls, and two
\* readers over equal buffers produce equal results.
C28_Repeatable ==
    /\ (pc = "parse" /\ steps = 0) => (offset = 0 /\ messages = << >>)
    /\ (pc \in {"parse", "message"} /\ first # << >>) =>
           /\ Len(messages) <= Len(first.messages)
           /\ \A j \in DOMAIN messages : messages[j] = first.messages[j]
    /\ pc = "done" =>
           /\ first # << >>
           /\ Len(messages) = Len(first.messages)
           /\ messages = first.messages
           /\ error = first.error
           /\ offset = first.offset

\* a later parse() of a buffer of two messages has read the first one again, with its
\* decoded field, and is about to read the second
C28_Witness ==
    /\ pc = "parse"
    /\ first # << >>
    /\ Len(first.messages) = 2
    /\ Len(messages) = 1
    /\ hasDecodedField(messages[1])
    /\ messages[1] = first.messages[1]
    /\ offset = messages[1].totalLength
    /\ offset < byteLength

(***************************************************************************)
(* Properties of failures inside complex-packing decoding.                 *)
(***************************************************************************)
\* the body of decodeComplexPacking's try block throws on section 7 of input field i,
\* which starts behind the fields before it
tryBlockThrows(i) ==
    complexPackingTry(payloadOffset(i), messages[i].sections.section7.length - 5,
                      messages[i].sections.section5.template,
                      messages[i].sections.section5.numberOfDataPoints).thrown

\* the section loop is at section 7 of a complex-packed field
atComplexSection7 ==
    /\ pc = "message"
    /\ InRange(offset, 5)
    /\ getUint8(offset + 4) = 7
    /\ "section5" \in DOMAIN message.sections
    /\ "template" \in DOMAIN message.sections.section5
    /\ message.sections.section5.dataRepresentationTemplateNumber \in {2, 3}

\* parsing section 7 of a complex-packed field moves the cursor by the length of the
\* section and stays in the section loop without an error
section7Passed ==
    (atComplexSection7 /\ steps' = steps + 1) =>
        /\ offset' = offset + getUint32(offset)
        /\ pc' = "message"
        /\ error' = "none"
        /\ "section7" \in DOMAIN message'.sections

\* once parse() has returned, every field whose arrays overrun the buffer is among the
\* messages as N zeros, and so is every message behind it
failuresContained ==
    pc = "done" =>
        \A i \in DOMAIN input :
            (input[i].template \in {2, 3}
                 /\ input[i].packing.numberOfGroups > Len(input[i].packing.groups)) =>
                /\ error = "none"
                /\ Len(messages) = Len(input)
                /\ offset = byteLength
                /\ hasDecodedField(messages[i])
                /\ tryBlockThrows(i)
                /\ messages[i].sections.section7.data
                       = [n \in 1..input[i].points5 |-> Scaled(ZeroFloat, 0, 0, 0)]
                /\ \A j \in (i + 1)..Len(input) :
                       /\ hasDecodedField(messages[j])
                       /\ \A n \in 1..input[j].points5 :
                              integerAt(j, n) = input[j].payload[n]

C30_ReaderUnchanged ==
    [][(lastOp = "none" /\ lastOp' \in {"getData", "getGrid", "getInventory"}) =>
          /\ messages' = messages
          /\ buffer' = buffer
          /\ offset' = offset
          /\ pc' = pc]_vars

\* getData() with earthRelativeWinds returned the point objects of UGRD and VGRD on a
\* grid whose winds are relative to the grid, and the two fields held by the reader
\* are the packed values still
C30_Witness ==
    /\ lastOp = "getData"
    /\ queryError = "none"
    /\ options = [earthRelativeWinds |-> TRUE, asObjects |-> TRUE]
    /\ Len(messages) = 2
    /\ input[1].flags = 56
    /\ sourceOf(messages, options, matchFilter(messages, options), "ugrd") = 1
    /\ sourceOf(messages, options, matchFilter(messages, options), "vgrd") = 2
    /\ result[2].ugrd.X = 3
    /\ result[2].vgrd.X = 4
    /\ \A n \in 1..4 : /\ integerAt(1, n) = input[1].payload[n]
                       /\ integerAt(2, n) = input[2].payload[n]

====
